---- MODULE Spec2Model ----
(***************************************************************************)
(* State-machine model of the NadaFlix single-page application: the        *)
(* localStorage-backed wishlist hook (hooks/useWishlist.ts), the fetch     *)
(* hook (hooks/useMovies.ts) and the local credential store                *)
(* (utils/auth.ts, pages/SignInPage.tsx).                                  *)
(*                                                                         *)
(* A "context" is one browser tab of the application.  localStorage is     *)
(* shared by all contexts; a setItem/removeItem that changes a value       *)
(* queues a 'storage' event, carrying the key, in every OTHER context.     *)
(* Every event handler runs to completion in its context, together with    *)
(* the React effects its state updates schedule, before the next event of  *)
(* that context is handled.  The contexts are separate processes: between  *)
(* the two store writes of a login or of a logout the other contexts may   *)
(* run, so these two handlers take two steps, one per write of the         *)
(* session keys.                                                           *)
(***************************************************************************)
EXTENDS Integers, Sequences, FiniteSets, TLC

\* ------------------------------------------------------------------ bounds
NumContexts == 2
MaxPending == 2
MaxInflight == 3
MaxOps == 3
MaxList == 3
MaxPage == 3

Contexts == 1..NumContexts

\* ------------------------------------------------------- localStorage keys
STORAGE_KEY == "movieWishlist"
USERS_KEY == "users"
TMDB_KEY == "TMDb-Key"
IS_LOGIN_KEY == "isLogin"
REMEMBER_ID_KEY == "rememberId"
THEME_STORAGE_KEY == "theme"

VARIABLES
    wlStored,     \* localStorage value under 'movieWishlist'
    wishlist,     \* wishlist[c]: the useWishlist state of context c
    pending,      \* pending[c]: queued 'storage' events (keys) of context c
    wlLast,       \* history: the last wishlist operation
    wlBefore,     \* history: the acting context's wishlist before wlLast
    wlPrev,       \* history: the operation before wlLast, and the wishlist before it
    keyStored,    \* localStorage value under 'TMDb-Key'
    mounted,      \* a component using useMovies is mounted
    endpoint,     \* useMovies: the endpoint argument of the last render
    tmdbKeyOption,\* useMovies: options.tmdbKey of the last render
    movies,       \* useMovies state
    loading,      \* useMovies state
    error,        \* useMovies state
    movieCache,   \* module-level Map: endpoint -> list
    lastServed,   \* history: per endpoint, the list of the latest 2xx
                  \* response to a fetch that was not aborted
    inflight,     \* fetches not yet settled, each with its effect's closure
    hookRun,      \* history: what the latest effect run read and did
    hookLast,     \* history: the last step of the hook
    usersStored,  \* localStorage value under 'users'
    signLast,     \* history: the last submission of a sign-in page, and
                  \* the status it showed
    flagStored,   \* localStorage value under 'isLogin'
    rememberStored, \* localStorage value under 'rememberId'
    session,      \* session[c]: the AuthProvider state of context c
    pc,           \* pc[c]: the handler context c is in the middle of
    sessLast,     \* history: the last step of a session operation
    seen,         \* history: the inconsistent pairs (flag, secret) a context
                  \* has read from the store
    themeStored,  \* localStorage value under 'theme'
    theme,        \* theme[c]: the theme state of ProfilePage in context c
    ops,          \* the number of operations the users have started
    source,       \* SearchPage: the list handed to applyFilterPipeline
    pipeFilters,  \* SearchPage: the filters handed to applyFilterPipeline
    filtered,     \* SearchPage: what applyFilterPipeline returned
    site,         \* the page the tab shows: search, popular or detail
    started,      \* the mount effects of the page have run
    pageKey,      \* resolvedKey of the page
    filters,      \* SearchPage state
    timers,       \* SearchPage: the timeouts set and not yet fired or
                  \* cleared; ref marks the one debounceRef holds
    firstLoadRef, \* SearchPage ref
    viewMode,     \* PopularPage state
    pendingPageRef, \* PopularPage ref
    hasMore,      \* PopularPage state
    sitePage,     \* PopularPage state: page
    siteMovies,   \* the page's movies (MovieDetailPage: movie, or empty)
    siteLoading,  \* the page's loading
    siteError,    \* the page's error
    requests,     \* the page's fetches not yet settled; current marks the
                  \* one whose controller requestController / abortRef holds
    pageLast      \* history: the last step of the page

wishVars == <<wlStored, wishlist, pending, wlLast, wlBefore, wlPrev>>
hookVars == <<keyStored, mounted, endpoint, tmdbKeyOption, movies, loading,
              error, movieCache, lastServed, inflight, hookRun, hookLast>>
hookRest == <<mounted, endpoint, tmdbKeyOption, movies, loading, error,
              movieCache, lastServed, inflight, hookRun, hookLast>>
authVars == <<usersStored, signLast>>
sessVars == <<flagStored, rememberStored, session, pc, sessLast, seen>>
syncVars == <<themeStored, theme, ops>>
pipeVars == <<source, pipeFilters, filtered>>
pageVars == <<site, started, pageKey, filters, timers, firstLoadRef, viewMode,
              pendingPageRef, hasMore, sitePage, siteMovies, siteLoading,
              siteError, requests, pageLast>>
uiVars == <<pipeVars, pageVars>>
vars == <<wishVars, hookVars, authVars, sessVars, syncVars, uiVars>>
\* What the operations of each part leave alone.
notWish == <<hookVars, authVars, sessVars, syncVars, uiVars>>
notHook == <<wishVars, authVars, sessVars, syncVars, uiVars>>
notAuth == <<wlStored, wishlist, wlLast, wlBefore, wlPrev, hookVars, sessVars,
             syncVars, uiVars>>
wishRest == <<wlStored, wishlist, wlLast, wlBefore, wlPrev>>

\* ---------------------------------------------------------------- strings
\* A string is the sequence of its characters; null and undefined are
\* sequences no string equals.
Null == <<"null">>
Undefined == <<"undefined">>

RECURSIVE TrimStart(_)
TrimStart(str) ==
    IF str # <<>> /\ Head(str) = " " THEN TrimStart(Tail(str)) ELSE str

RECURSIVE TrimEnd(_)
TrimEnd(str) ==
    IF str # <<>> /\ str[Len(str)] = " "
    THEN TrimEnd(SubSeq(str, 1, Len(str) - 1))
    ELSE str

trim(str) == TrimEnd(TrimStart(str))

toLowerCase(str) ==
    [i \in 1..Len(str) |->
        IF str[i] = "A" THEN "a" ELSE IF str[i] = "B" THEN "b" ELSE str[i]]

\* ------------------------------------------------------------ JSON values
\* A localStorage value is absent (getItem returns null), the empty string,
\* text JSON.parse rejects, JSON that is not an array, or a JSON array.
Stored(kind, items) == [kind |-> kind, items |-> items]
Absent == Stored("absent", <<>>)

JSON_stringify(list) == Stored("array", list)

\* A wishlist entry; title stands for the payload (title, poster_path).
\* idType is what `typeof item.id` yields.
WishlistEntry(id, title) == [idType |-> "number", id |-> id, title |-> title]

\* The entries the pages offer: a movie's title depends on the page that
\* shows it (the placeholder is 'Untitled' on some pages, another on others).
MovieIds == {5, 7, 9}
Entries ==
    { WishlistEntry(5, "Untitled"), WishlistEntry(5, "Mijeong"),
      WishlistEntry(7, "Untitled"), WishlistEntry(9, "Untitled") }
\* The movies shown in every context at once.
SharedEntries == { entry \in Entries : entry.id \in {5, 7} }

\* ------------------------------------------------------------ useWishlist
some(list, id) == \E i \in 1..Len(list) : list[i].id = id

IsValidEntry(item) == item.idType = "number" /\ item.title # ""

readWishlist(raw) ==
    IF raw.kind \in {"absent", "empty"} THEN <<>>
    ELSE IF raw.kind = "garbage" THEN <<>>
    ELSE IF raw.kind # "array" THEN <<>>
    ELSE SelectSeq(raw.items, IsValidEntry)

isInWishlist(c, movieId) == some(wishlist[c], movieId)

\* Variants of the toggle with a plausible slip each.
toggledAppend(current, entry) ==
    IF some(current, entry.id)
    THEN SelectSeq(current, LAMBDA item : item.id # entry.id)
    ELSE current \o <<entry>>

toggledDropHead(current, entry) ==
    IF some(current, entry.id) THEN Tail(current) ELSE <<entry>> \o current

toggledNoCheck(current, entry) ==
    IF current # <<>> /\ Head(current).id = entry.id
    THEN Tail(current)
    ELSE <<entry>> \o current

toggled(current, entry) ==
    IF some(current, entry.id)
    THEN SelectSeq(current, LAMBDA item : item.id # entry.id)
    ELSE <<entry>> \o current

\* ----------------------------------------------------------- storage events
\* setItem/removeItem by context c: every other context gets an event for the
\* key when the value changed (a write of the same value fires nothing).
Broadcast(queues, c, key, old, new) ==
    [d \in Contexts |->
        IF d # c /\ old # new THEN Append(queues[d], key) ELSE queues[d]]

\* The event queues are bounded: a write that would fire an event waits until
\* every receiving queue has room.
Room(c, old, new) ==
    old = new \/ \A d \in Contexts \ {c} : Len(pending[d]) < MaxPending

\* ------------------------------------------------------------- history
NoEntry == WishlistEntry(0, "")
WlOp(op, c, entry, changed) ==
    [op |-> op, ctx |-> c, entry |-> entry, changed |-> changed]
NoOp == WlOp("none", 0, NoEntry, FALSE)
NoPrev == [op |-> "none", ctx |-> 0, entry |-> NoEntry, before |-> <<>>]

\* ------------------------------------------------------------ operations
\* toggleWishlist(entry) in context c: the state update and the [wishlist]
\* effect that writes the new collection to localStorage.
toggleWishlistStale(c, entry) ==
    LET next == toggled(wishlist[c], entry)
        raw == JSON_stringify(wishlist[c])
    IN  /\ Room(c, wlStored, raw)
        /\ wishlist' = [wishlist EXCEPT ![c] = next]
        /\ wlStored' = raw
        /\ pending' = Broadcast(pending, c, STORAGE_KEY, wlStored, raw)
        /\ wlLast' = WlOp("toggle", c, entry, next # wishlist[c])

toggleWishlist(c, entry) ==
    LET next == toggled(wishlist[c], entry)
        raw == JSON_stringify(next)
    IN  /\ Room(c, wlStored, raw)
        /\ wishlist' = [wishlist EXCEPT ![c] = next]
        /\ wlStored' = raw
        /\ pending' = Broadcast(pending, c, STORAGE_KEY, wlStored, raw)
        /\ wlLast' = WlOp("toggle", c, entry, next # wishlist[c])

\* A 'storage' event reaches context c: syncFromStorage re-reads the wishlist
\* when the key is the wishlist key, and the [wishlist] effect writes the new
\* state back.
syncFromStorageMerge(c) ==
    /\ pending[c] # <<>>
    /\ LET key == Head(pending[c])
           read == readWishlist(wlStored)
           next == IF key = STORAGE_KEY
                   THEN wishlist[c] \o
                        SelectSeq(read, LAMBDA item : ~some(wishlist[c], item.id))
                   ELSE wishlist[c]
           raw == IF key = STORAGE_KEY THEN JSON_stringify(next) ELSE wlStored
           rest == [pending EXCEPT ![c] = Tail(pending[c])]
       IN  /\ Room(c, wlStored, raw)
           /\ wishlist' = [wishlist EXCEPT ![c] = next]
           /\ wlStored' = raw
           /\ pending' = Broadcast(rest, c, STORAGE_KEY, wlStored, raw)
           /\ wlLast' = WlOp(IF key = STORAGE_KEY THEN "sync" ELSE "ignore",
                              c, NoEntry, next # wishlist[c])

syncFromStorage(c) ==
    /\ pending[c] # <<>>
    /\ LET key == Head(pending[c])
           next == IF key = STORAGE_KEY THEN readWishlist(wlStored) ELSE wishlist[c]
           raw == IF key = STORAGE_KEY THEN JSON_stringify(next) ELSE wlStored
           rest == [pending EXCEPT ![c] = Tail(pending[c])]
       IN  /\ Room(c, wlStored, raw)
           /\ wishlist' = [wishlist EXCEPT ![c] = next]
           /\ wlStored' = raw
           /\ pending' = Broadcast(rest, c, STORAGE_KEY, wlStored, raw)
           /\ wlLast' = WlOp(IF key = STORAGE_KEY THEN "sync" ELSE "ignore",
                              c, NoEntry, next # wishlist[c])

\* A page of context c mounts the hook: the state starts as readWishlist()
\* and the first run of the [wishlist] effect writes it back.
useWishlist(c) ==
    LET next == readWishlist(wlStored)
        raw == JSON_stringify(next)
    IN  /\ Room(c, wlStored, raw)
        /\ wishlist' = [wishlist EXCEPT ![c] = next]
        /\ wlStored' = raw
        /\ pending' = Broadcast(pending, c, STORAGE_KEY, wlStored, raw)
        /\ wlLast' = WlOp("mount", c, NoEntry, next # wishlist[c])

\* ---------------------------------------------------------------- useMovies
Endpoints == {"/movie/popular", "/movie/top_rated"}

\* options.tmdbKey as a caller passes it: left out, empty, blank, or a key.
KeyOptions == {Undefined, <<>>, <<" ">>, <<"k">>, <<" ", "j">>}

\* The error messages of the hook; NoError is null.
NoError == "null"
MissingKeyMessage == "Add your TMDB key on the sign-in screen to load movies."
RejectedKeyMessage == "TMDB rejected the provided API key."
ServerErrorMessage == "TMDB responded with an error."
NetworkErrorMessage == "Failed to fetch"

\* The payloads a response can carry: with or without a results field.  A
\* movie's title or name may be empty.
Movie(id, title, name) == [id |-> id, title |-> title, name |-> name]
Payload(has, results) == [hasResults |-> has, results |-> results]
Payloads ==
    { Payload(FALSE, <<>>),
      Payload(TRUE, <<Movie(5, "Heat", ""), Movie(7, "", "Dark")>>),
      Payload(TRUE, <<Movie(9, "", "")>>) }

\* An entry of the movieCache Map, or the lack of one.
Cached(list) == [has |-> TRUE, list |-> list]
NotCached == [has |-> FALSE, list |-> <<>>]

normalizeMovie(movie) ==
    [movie EXCEPT !.title = IF movie.title # "" THEN movie.title
                            ELSE IF movie.name # "" THEN movie.name
                            ELSE "Mijeong"]

normalized(payload) ==
    LET list == IF payload.hasResults THEN payload.results ELSE <<>>
    IN  [i \in 1..Len(list) |-> normalizeMovie(list[i])]

\* How a fetch settles: a 2xx response with a payload, a 401, another
\* non-2xx status, a network failure, or the AbortError of an aborted fetch.
Outcomes ==
    { [kind |-> "ok", payload |-> p] : p \in Payloads } \cup
    { [kind |-> k, payload |-> Payload(FALSE, <<>>)] :
        k \in {"401", "500", "network", "abort"} }

getStoredTmdbKey == IF keyStored = Null THEN <<>> ELSE keyStored

resolvedKeyOf(option) == IF option = Undefined THEN Null ELSE trim(option)

\* tmdbKey of an effect run: (resolvedKey ?? fallbackKey).trim()
effectKey(option) ==
    LET resolvedKey == resolvedKeyOf(option)
        fallbackKey == getStoredTmdbKey
    IN  trim(IF resolvedKey # Null THEN resolvedKey ELSE fallbackKey)

\* The cleanup of the effect that issued the latest fetch: ignore = true and
\* controller.abort().  Earlier fetches were cleaned up before.
cleanupAbortOnly(fetches) ==
    [i \in 1..Len(fetches) |-> [fetches[i] EXCEPT !.aborted = TRUE]]

cleanup(fetches) ==
    [i \in 1..Len(fetches) |->
        [fetches[i] EXCEPT !.ignore = TRUE, !.aborted = TRUE]]

Fetch(ep, key) ==
    [endpoint |-> ep, key |-> key, ignore |-> FALSE, aborted |-> FALSE]

HookStep(op, cancelled) == [op |-> op, cancelled |-> cancelled]
HookRun(fallback, requested) == [fallback |-> fallback, requested |-> requested]

\* The effect body for the dependencies (ep, resolvedKey): without a key the
\* hook reports the missing key, with one it starts fetchMovies().
\* fetches, list and wasLoading are the state the effect finds.
effectKeepsLoading(ep, option, fetches, list, wasLoading) ==
    LET tmdbKey == effectKey(option)
    IN  /\ tmdbKey # <<>> => Len(fetches) < MaxInflight
        /\ endpoint' = ep
        /\ tmdbKeyOption' = option
        /\ IF tmdbKey = <<>>
           THEN /\ movies' = <<>>
                /\ loading' = wasLoading
                /\ error' = MissingKeyMessage
                /\ inflight' = fetches
           ELSE /\ movies' = list
                /\ loading' = TRUE
                /\ error' = NoError
                /\ inflight' = Append(fetches, Fetch(ep, tmdbKey))
        /\ hookRun' = HookRun(keyStored, tmdbKey # <<>>)
        /\ hookLast' = HookStep("effect", FALSE)

effect(ep, option, fetches, list, wasLoading) ==
    LET tmdbKey == effectKey(option)
    IN  /\ tmdbKey # <<>> => Len(fetches) < MaxInflight
        /\ endpoint' = ep
        /\ tmdbKeyOption' = option
        /\ IF tmdbKey = <<>>
           THEN /\ movies' = <<>>
                /\ loading' = FALSE
                /\ error' = MissingKeyMessage
                /\ inflight' = fetches
           ELSE /\ movies' = list
                /\ loading' = TRUE
                /\ error' = NoError
                /\ inflight' = Append(fetches, Fetch(ep, tmdbKey))
        /\ hookRun' = HookRun(keyStored, tmdbKey # <<>>)
        /\ hookLast' = HookStep("effect", FALSE)

\* A component mounts the hook: the state starts from the cache, then the
\* effect runs.
Mount(ep, option) ==
    /\ ~mounted
    /\ mounted' = TRUE
    /\ effect(ep, option, inflight,
              IF movieCache[ep].has THEN movieCache[ep].list ELSE <<>>,
              ~movieCache[ep].has)
    /\ UNCHANGED <<keyStored, movieCache, lastServed>>

\* A render with another endpoint or another resolved key: the previous
\* effect is cleaned up and the effect runs again.
Rerender(ep, option) ==
    /\ mounted
    /\ <<ep, resolvedKeyOf(option)>> # <<endpoint, resolvedKeyOf(tmdbKeyOption)>>
    /\ effect(ep, option, cleanup(inflight), movies, loading)
    /\ UNCHANGED <<keyStored, mounted, movieCache, lastServed>>

\* The component unmounts: the effect is cleaned up and the state is gone.
Unmount ==
    /\ mounted
    /\ mounted' = FALSE
    /\ inflight' = cleanup(inflight)
    /\ movies' = <<>>
    /\ loading' = FALSE
    /\ error' = NoError
    /\ hookLast' = HookStep("unmount", FALSE)
    /\ UNCHANGED <<keyStored, endpoint, tmdbKeyOption, movieCache, lastServed,
                   hookRun>>

Remove(fetches, i) ==
    SubSeq(fetches, 1, i - 1) \o SubSeq(fetches, i + 1, Len(fetches))

\* canAbort(fetchError)
canAbort(outcome) == outcome.kind = "abort"

errorMessage(outcome) ==
    IF outcome.kind = "401" THEN RejectedKeyMessage
    ELSE IF outcome.kind = "500" THEN ServerErrorMessage
    ELSE NetworkErrorMessage

\* What the responses have served per endpoint once the fetch has settled
\* with the given outcome.
Served(fetch, outcome) ==
    IF outcome.kind = "ok" /\ ~fetch.aborted
    THEN [lastServed EXCEPT ![fetch.endpoint] = Cached(normalized(outcome.payload))]
    ELSE lastServed

\* A variant that caches the list of every 2xx response.
SettleCachesCancelled(i, outcome) ==
    LET fetch == inflight[i]
        list == normalized(outcome.payload)
    IN  /\ outcome.kind = "abort" => fetch.aborted
        /\ inflight' = Remove(inflight, i)
        /\ IF outcome.kind = "ok"
           THEN /\ movies' = IF fetch.ignore THEN movies ELSE list
                /\ movieCache' = [movieCache EXCEPT ![fetch.endpoint] = Cached(list)]
                /\ error' = error
           ELSE /\ movieCache' = movieCache
                /\ IF canAbort(outcome) \/ fetch.ignore
                   THEN movies' = movies /\ error' = error
                   ELSE movies' = <<>> /\ error' = errorMessage(outcome)
        /\ loading' = IF fetch.ignore THEN loading ELSE FALSE
        /\ lastServed' = Served(fetch, outcome)
        /\ hookLast' = HookStep("settle", fetch.aborted)
        /\ UNCHANGED <<keyStored, mounted, endpoint, tmdbKeyOption, hookRun>>

\* A variant whose finally block leaves the loading flag alone.
SettleKeepsLoading(i, outcome) ==
    LET fetch == inflight[i]
        list == normalized(outcome.payload)
    IN  /\ outcome.kind = "abort" => fetch.aborted
        /\ inflight' = Remove(inflight, i)
        /\ IF outcome.kind = "ok"
           THEN /\ movies' = IF fetch.ignore THEN movies ELSE list
                /\ movieCache' = IF fetch.ignore THEN movieCache
                                 ELSE [movieCache EXCEPT ![fetch.endpoint] = Cached(list)]
                /\ error' = error
           ELSE /\ movieCache' = movieCache
                /\ IF canAbort(outcome) \/ fetch.ignore
                   THEN movies' = movies /\ error' = error
                   ELSE movies' = <<>> /\ error' = errorMessage(outcome)
        /\ loading' = loading
        /\ lastServed' = Served(fetch, outcome)
        /\ hookLast' = HookStep("settle", fetch.aborted)
        /\ UNCHANGED <<keyStored, mounted, endpoint, tmdbKeyOption, hookRun>>

\* A variant whose catch block looks at the error alone.
SettleSurfacesError(i, outcome) ==
    LET fetch == inflight[i]
        list == normalized(outcome.payload)
    IN  /\ outcome.kind = "abort" => fetch.aborted
        /\ inflight' = Remove(inflight, i)
        /\ IF outcome.kind = "ok"
           THEN /\ movies' = IF fetch.ignore THEN movies ELSE list
                /\ movieCache' = IF fetch.ignore THEN movieCache
                                 ELSE [movieCache EXCEPT ![fetch.endpoint] = Cached(list)]
                /\ error' = error
           ELSE /\ movieCache' = movieCache
                /\ IF canAbort(outcome)
                   THEN movies' = movies /\ error' = error
                   ELSE movies' = <<>> /\ error' = errorMessage(outcome)
        /\ loading' = IF fetch.ignore THEN loading ELSE FALSE
        /\ lastServed' = Served(fetch, outcome)
        /\ hookLast' = HookStep("settle", fetch.aborted)
        /\ UNCHANGED <<keyStored, mounted, endpoint, tmdbKeyOption, hookRun>>

\* The fetch of inflight[i] settles and the rest of fetchMovies() runs: the
\* try block, the catch block and the finally block.
Settle(i, outcome) ==
    LET fetch == inflight[i]
        list == normalized(outcome.payload)
    IN  /\ outcome.kind = "abort" => fetch.aborted
        /\ inflight' = Remove(inflight, i)
        /\ IF outcome.kind = "ok"
           THEN /\ movies' = IF fetch.ignore THEN movies ELSE list
                /\ movieCache' = IF fetch.ignore THEN movieCache
                                 ELSE [movieCache EXCEPT ![fetch.endpoint] = Cached(list)]
                /\ error' = error
           ELSE /\ movieCache' = movieCache
                /\ IF canAbort(outcome) \/ fetch.ignore
                   THEN movies' = movies /\ error' = error
                   ELSE movies' = <<>> /\ error' = errorMessage(outcome)
        /\ loading' = IF fetch.ignore THEN loading ELSE FALSE
        /\ lastServed' = Served(fetch, outcome)
        /\ hookLast' = HookStep("settle", fetch.aborted)
        /\ UNCHANGED <<keyStored, mounted, endpoint, tmdbKeyOption, hookRun>>

\* ------------------------------------------------------------ utils/auth
Letters == {"a", "b", "A", "B"}

\* EMAIL_REGEX over the characters of the model: a local part of letters and
\* dots, an '@', and a domain of dot-separated labels of letters.
validateEmail(email) ==
    \E at \in 1..Len(email) :
        /\ email[at] = "@"
        /\ at > 1
        /\ \A i \in 1..(at - 1) : email[i] \in Letters \cup {"."}
        /\ at < Len(email)
        /\ \A i \in (at + 1)..Len(email) : email[i] \in Letters \cup {"."}
        /\ email[at + 1] \in Letters
        /\ email[Len(email)] \in Letters
        /\ \A i \in (at + 1)..(Len(email) - 1) :
              email[i] = "." => email[i + 1] \in Letters

StoredUser(id, password) == [id |-> id, password |-> password]

\* entry?.id && entry?.password
IsValidUser(item) == item.id # <<>> /\ item.password # <<>>

\* A variant that returns the parsed list as it is.
readUsersUnfiltered(raw) ==
    IF raw.kind \in {"absent", "empty"} THEN <<>>
    ELSE IF raw.kind = "garbage" THEN <<>>
    ELSE IF raw.kind # "array" THEN <<>>
    ELSE raw.items

readUsers(raw) ==
    IF raw.kind \in {"absent", "empty"} THEN <<>>
    ELSE IF raw.kind = "garbage" THEN <<>>
    ELSE IF raw.kind # "array" THEN <<>>
    ELSE SelectSeq(raw.items, IsValidUser)

hasUser(users, email) == \E i \in 1..Len(users) : users[i].id = email

\* A variant that appends without looking.
registerUserNoCheck(email, password) ==
    LET users == readUsers(usersStored)
    IN  [success |-> TRUE,
         saved |-> JSON_stringify(Append(users, StoredUser(email, password)))]

\* A variant that saves the new entry alone.
registerUserReplace(email, password) ==
    LET users == readUsers(usersStored)
    IN  IF hasUser(users, email)
        THEN [success |-> FALSE, saved |-> usersStored]
        ELSE [success |-> TRUE,
              saved |-> JSON_stringify(<<StoredUser(email, password)>>)]

\* registerUser(email, password): the result, and the value saveUsers()
\* leaves under 'users'.
registerUser(email, password) ==
    LET users == readUsers(usersStored)
    IN  IF hasUser(users, email)
        THEN [success |-> FALSE, saved |-> usersStored]
        ELSE [success |-> TRUE,
              saved |-> JSON_stringify(Append(users, StoredUser(email, password)))]

\* ----------------------------------------------------------- SignInPage
\* What the user typed into the sign-up form.
EmailInputs ==
    { <<"a", "@", "b">>, <<" ", "A", "@", "b", " ">>, <<"b", "@", "b">>,
      <<"a", " ", "b">> }
KeyInputs == { <<"k">>, <<" ", "j">>, <<>> }
SignupForm(email, password, confirm, agree) ==
    [email |-> email, password |-> password, confirm |-> confirm,
     agree |-> agree]
\* Every e-mail with every key, confirmed and agreed to; and a form with
\* another confirmation, and one without the consent.
SignupForms ==
    { SignupForm(email, key, key, TRUE) :
        email \in EmailInputs, key \in KeyInputs } \cup
    { SignupForm(<<"a", "@", "b">>, <<"k">>, <<" ", "j">>, TRUE),
      SignupForm(<<"a", "@", "b">>, <<"k">>, <<"k">>, FALSE) }

\* A variant that keeps the letter case.
normalizedEmailTrimOnly(raw) == trim(raw)

\* signupForm.email.trim().toLowerCase()
normalizedEmail(raw) == toLowerCase(trim(raw))

Submission(op, c, raw, email, password, shown) ==
    [op |-> op, ctx |-> c, raw |-> raw, email |-> email, password |-> password,
     status |-> shown]

\* handleSignUp in context c: the checks of the form, then registerUser.
handleSignUpOverwrite(c, form) ==
    LET email == normalizedEmail(form.email)
        password == trim(form.password)
        confirm == trim(form.confirm)
        users == readUsers(usersStored)
        saved == JSON_stringify(
                     SelectSeq(users, LAMBDA user : user.id # email)
                     \o <<StoredUser(email, password)>>)
        outcome ==
            IF ~validateEmail(email) THEN "invalid-email"
            ELSE IF Len(password) = 0 THEN "missing-key"
            ELSE IF password # confirm THEN "mismatch"
            ELSE IF ~form.agree THEN "no-consent"
            ELSE "created"
        next == IF outcome = "created" THEN saved ELSE usersStored
    IN  /\ Room(c, usersStored, next)
        /\ usersStored' = next
        /\ pending' = Broadcast(pending, c, USERS_KEY, usersStored, next)
        /\ signLast' = Submission("signup", c, form.email, email, password,
                                  outcome)

handleSignUp(c, form) ==
    LET email == normalizedEmail(form.email)
        password == trim(form.password)
        confirm == trim(form.confirm)
        result == registerUser(email, password)
        outcome ==
            IF ~validateEmail(email) THEN "invalid-email"
            ELSE IF Len(password) = 0 THEN "missing-key"
            ELSE IF password # confirm THEN "mismatch"
            ELSE IF ~form.agree THEN "no-consent"
            ELSE IF ~result.success THEN "exists"
            ELSE "created"
        next == IF outcome = "created" THEN result.saved ELSE usersStored
    IN  /\ Room(c, usersStored, next)
        /\ usersStored' = next
        /\ pending' = Broadcast(pending, c, USERS_KEY, usersStored, next)
        /\ signLast' = Submission("signup", c, form.email, email, password,
                                  outcome)

\* authenticateUser(email, password): the first entry with that id and that
\* password, if there is one.
authenticateUser(email, password) ==
    LET users == readUsers(usersStored)
        matches == { i \in 1..Len(users) :
                        users[i].id = email /\ users[i].password = password }
        first == CHOOSE i \in matches : \A j \in matches : i <= j
    IN  IF matches = {} THEN [success |-> FALSE, tmdbKey |-> Undefined]
        ELSE [success |-> TRUE, tmdbKey |-> users[first].password]

\* What the user typed into the sign-in form.
LoginForm(email, password, remember) ==
    [email |-> email, password |-> password, remember |-> remember]
LoginForms ==
    { LoginForm(<<"a", "@", "b">>, <<"k">>, TRUE),
      LoginForm(<<" ", "A", "@", "b", " ">>, <<" ", "j">>, FALSE),
      LoginForm(<<"b", "@", "b">>, <<"k">>, FALSE),
      LoginForm(<<"a", " ", "b">>, <<"k">>, FALSE),
      LoginForm(<<"a", "@", "b">>, <<>>, TRUE) }

\* ------------------------------------------- utils/auth, AuthContext: session
\* getItem('isLogin') of a store that never held the flag.
FlagAbsent == "absent"

isLoggedIn == flagStored = "true"

\* The AuthProvider state {isAuthenticated, tmdbKey}.
Session(isAuthenticated, tmdbKey) ==
    [isAuthenticated |-> isAuthenticated, tmdbKey |-> tmdbKey]

\* What the useState initialisers and syncAuth read from the store.
StoredSession == Session(isLoggedIn, getStoredTmdbKey)

\* The secrets a registered user can log in with (trimmed, not empty).
SessionKeys == { <<"k">>, <<"j">> }

\* Where a context is: between handlers, or between the two writes of
\* persistLoginState / clearLoginState.  alone: no other context has written
\* 'TMDb-Key' since this handler's first write.
Idle == [op |-> "idle", key |-> <<>>, alone |-> TRUE]
Busy(op, key) == [op |-> op, key |-> key, alone |-> TRUE]

\* Context c writes 'TMDb-Key': the handlers under way elsewhere are no
\* longer alone.
Disturb(procs, c) ==
    [d \in Contexts |->
        IF d # c /\ procs[d].op # "idle" THEN [procs[d] EXCEPT !.alone = FALSE]
        ELSE procs[d]]

\* The number of events a write fires in each other context.
Fired(old, new) == IF old = new THEN 0 ELSE 1
RoomFor(c, n) == \A d \in Contexts \ {c} : Len(pending[d]) + n <= MaxPending

SessOp(op, c, key, alone) ==
    [op |-> op, ctx |-> c, key |-> key, alone |-> alone, event |-> ""]
\* The listener of context c has run for a 'storage' event of the given key.
SyncOp(c, event) == [SessOp("sync", c, <<>>, TRUE) EXCEPT !.event = event]
NoSessOp == SessOp("none", 0, <<>>, TRUE)

\* A pair (flag, secret) that does not fit together.
Observed(loggedIn, key) ==
    IF loggedIn /\ key = <<>> THEN {"flag-without-secret"}
    ELSE IF ~loggedIn /\ key # <<>> THEN {"secret-without-flag"}
    ELSE {}

\* loginWithKey(key), up to the first write of persistLoginState:
\* writeToStorage(TMDB_KEY, tmdbKey).
loginWithKey(c, key) ==
    /\ pc[c].op = "idle"
    /\ RoomFor(c, Fired(keyStored, key))
    /\ keyStored' = key
    /\ pending' = Broadcast(pending, c, TMDB_KEY, keyStored, key)
    /\ pc' = [Disturb(pc, c) EXCEPT ![c] = Busy("login", key)]
    /\ sessLast' = SessOp("login-write", c, key, TRUE)
    /\ UNCHANGED <<flagStored, session, seen>>

\* A variant that sets the state without writing the flag.
loginWithKeyDoneNoFlag(c) ==
    /\ pc[c].op = "login"
    /\ flagStored' = flagStored
    /\ pending' = pending
    /\ session' = [session EXCEPT ![c] = Session(TRUE, pc[c].key)]
    /\ pc' = [pc EXCEPT ![c] = Idle]
    /\ sessLast' = SessOp("login", c, pc[c].key, pc[c].alone)
    /\ UNCHANGED <<keyStored, seen>>

\* The rest of loginWithKey: writeToStorage(IS_LOGIN_KEY, 'true'),
\* setIsAuthenticated(true), setTmdbKey(key).
loginWithKeyDone(c) ==
    /\ pc[c].op = "login"
    /\ RoomFor(c, Fired(flagStored, "true"))
    /\ flagStored' = "true"
    /\ pending' = Broadcast(pending, c, IS_LOGIN_KEY, flagStored, "true")
    /\ session' = [session EXCEPT ![c] = Session(TRUE, pc[c].key)]
    /\ pc' = [pc EXCEPT ![c] = Idle]
    /\ sessLast' = SessOp("login", c, pc[c].key, pc[c].alone)
    /\ UNCHANGED <<keyStored, seen>>

\* logout(), up to the first write of clearLoginState:
\* removeFromStorage(TMDB_KEY).
logout(c) ==
    /\ pc[c].op = "idle"
    /\ RoomFor(c, Fired(keyStored, Null))
    /\ keyStored' = Null
    /\ pending' = Broadcast(pending, c, TMDB_KEY, keyStored, Null)
    /\ pc' = [Disturb(pc, c) EXCEPT ![c] = Busy("logout", <<>>)]
    /\ sessLast' = SessOp("logout-write", c, <<>>, TRUE)
    /\ UNCHANGED <<flagStored, session, seen>>

\* A variant that keeps the secret in the state.
logoutDoneKeepsKey(c) ==
    /\ pc[c].op = "logout"
    /\ RoomFor(c, Fired(flagStored, "false"))
    /\ flagStored' = "false"
    /\ pending' = Broadcast(pending, c, IS_LOGIN_KEY, flagStored, "false")
    /\ session' = [session EXCEPT ![c] = Session(FALSE, session[c].tmdbKey)]
    /\ pc' = [pc EXCEPT ![c] = Idle]
    /\ sessLast' = SessOp("logout", c, <<>>, pc[c].alone)
    /\ UNCHANGED <<keyStored, seen>>

\* The rest of logout: writeToStorage(IS_LOGIN_KEY, 'false'),
\* setIsAuthenticated(false), setTmdbKey('').
logoutDone(c) ==
    /\ pc[c].op = "logout"
    /\ RoomFor(c, Fired(flagStored, "false"))
    /\ flagStored' = "false"
    /\ pending' = Broadcast(pending, c, IS_LOGIN_KEY, flagStored, "false")
    /\ session' = [session EXCEPT ![c] = Session(FALSE, <<>>)]
    /\ pc' = [pc EXCEPT ![c] = Idle]
    /\ sessLast' = SessOp("logout", c, <<>>, pc[c].alone)
    /\ UNCHANGED <<keyStored, seen>>

\* A variant that re-reads the flag alone.
syncAuthFlagOnly(c) ==
    /\ pc[c].op = "idle"
    /\ pending[c] # <<>>
    /\ session' = [session EXCEPT ![c] = Session(isLoggedIn, session[c].tmdbKey)]
    /\ seen' = seen \cup Observed(isLoggedIn, getStoredTmdbKey)
    /\ sessLast' = SyncOp(c, Head(pending[c]))
    /\ UNCHANGED <<keyStored, flagStored, pc>>

\* A variant that logs out of a store whose flag and secret do not fit.
syncAuthRepairs(c) ==
    /\ pc[c].op = "idle"
    /\ pending[c] # <<>>
    /\ flagStored' = IF Observed(isLoggedIn, getStoredTmdbKey) # {}
                     THEN "false" ELSE flagStored
    /\ keyStored' = IF Observed(isLoggedIn, getStoredTmdbKey) # {}
                    THEN Null ELSE keyStored
    /\ session' = [session EXCEPT ![c] =
                      IF Observed(isLoggedIn, getStoredTmdbKey) # {}
                      THEN Session(FALSE, <<>>) ELSE StoredSession]
    /\ seen' = seen \cup Observed(isLoggedIn, getStoredTmdbKey)
    /\ sessLast' = SyncOp(c, Head(pending[c]))
    /\ UNCHANGED pc

\* syncAuth, the 'storage' listener of AuthProvider: it runs for the event
\* at the head of the queue, whatever its key.
syncAuth(c) ==
    /\ pc[c].op = "idle"
    /\ pending[c] # <<>>
    /\ session' = [session EXCEPT ![c] = StoredSession]
    /\ seen' = seen \cup Observed(isLoggedIn, getStoredTmdbKey)
    /\ sessLast' = SyncOp(c, Head(pending[c]))
    /\ UNCHANGED <<keyStored, flagStored, pc>>

\* storeRememberedId(email): what it leaves under 'rememberId'.
storeRememberedId(email) == IF email = Undefined \/ email = <<>> THEN Null ELSE email

\* A variant that takes the id for proof enough.
handleSignInAnyKey(c, form) ==
    LET email == normalizedEmail(form.email)
        password == trim(form.password)
        outcome ==
            IF ~validateEmail(email) THEN "invalid-email"
            ELSE IF Len(password) = 0 THEN "missing-key"
            ELSE IF ~hasUser(readUsers(usersStored), email) THEN "invalid-credentials"
            ELSE "signed-in"
        remembered == storeRememberedId(IF form.remember THEN email ELSE Undefined)
    IN  /\ pc[c].op = "idle"
        /\ signLast' = Submission("signin", c, form.email, email, password,
                                  outcome)
        /\ IF outcome = "signed-in"
           THEN /\ RoomFor(c, Fired(rememberStored, remembered)
                              + Fired(keyStored, password))
                /\ rememberStored' = remembered
                /\ keyStored' = password
                /\ pending' = Broadcast(
                       Broadcast(pending, c, REMEMBER_ID_KEY,
                                 rememberStored, remembered),
                       c, TMDB_KEY, keyStored, password)
                /\ pc' = [Disturb(pc, c) EXCEPT ![c] = Busy("login", password)]
                /\ sessLast' = SessOp("login-write", c, password, TRUE)
           ELSE UNCHANGED <<rememberStored, keyStored, pending, pc, sessLast>>
        /\ UNCHANGED <<usersStored, flagStored, session, seen>>

\* A variant that stores the remembered id before it authenticates.
handleSignInRemembersFirst(c, form) ==
    LET email == normalizedEmail(form.email)
        password == trim(form.password)
        result == authenticateUser(email, password)
        outcome ==
            IF ~validateEmail(email) THEN "invalid-email"
            ELSE IF Len(password) = 0 THEN "missing-key"
            ELSE IF ~result.success THEN "invalid-credentials"
            ELSE "signed-in"
        remembered == storeRememberedId(IF form.remember THEN email ELSE Undefined)
    IN  /\ pc[c].op = "idle"
        /\ signLast' = Submission("signin", c, form.email, email, password,
                                  outcome)
        /\ rememberStored' = remembered
        /\ IF outcome = "signed-in"
           THEN /\ RoomFor(c, Fired(rememberStored, remembered)
                              + Fired(keyStored, password))
                /\ keyStored' = password
                /\ pending' = Broadcast(
                       Broadcast(pending, c, REMEMBER_ID_KEY,
                                 rememberStored, remembered),
                       c, TMDB_KEY, keyStored, password)
                /\ pc' = [Disturb(pc, c) EXCEPT ![c] = Busy("login", password)]
                /\ sessLast' = SessOp("login-write", c, password, TRUE)
           ELSE /\ RoomFor(c, Fired(rememberStored, remembered))
                /\ pending' = Broadcast(pending, c, REMEMBER_ID_KEY,
                                        rememberStored, remembered)
                /\ UNCHANGED <<keyStored, pc, sessLast>>
        /\ UNCHANGED <<usersStored, flagStored, session, seen>>

\* handleSignIn in context c: the checks of the form, authenticateUser,
\* storeRememberedId, and loginWithKey up to its first write.
handleSignIn(c, form) ==
    LET email == normalizedEmail(form.email)
        password == trim(form.password)
        result == authenticateUser(email, password)
        outcome ==
            IF ~validateEmail(email) THEN "invalid-email"
            ELSE IF Len(password) = 0 THEN "missing-key"
            ELSE IF ~result.success THEN "invalid-credentials"
            ELSE "signed-in"
        remembered == storeRememberedId(IF form.remember THEN email ELSE Undefined)
    IN  /\ pc[c].op = "idle"
        /\ signLast' = Submission("signin", c, form.email, email, password,
                                  outcome)
        /\ IF outcome = "signed-in"
           THEN /\ RoomFor(c, Fired(rememberStored, remembered)
                              + Fired(keyStored, password))
                /\ rememberStored' = remembered
                /\ keyStored' = password
                /\ pending' = Broadcast(
                       Broadcast(pending, c, REMEMBER_ID_KEY,
                                 rememberStored, remembered),
                       c, TMDB_KEY, keyStored, password)
                /\ pc' = [Disturb(pc, c) EXCEPT ![c] = Busy("login", password)]
                /\ sessLast' = SessOp("login-write", c, password, TRUE)
           ELSE UNCHANGED <<rememberStored, keyStored, pending, pc, sessLast>>
        /\ UNCHANGED <<usersStored, flagStored, session, seen>>

\* A variant of the guard that reads the flag alone.
allowedFlagOnly(c) == isLoggedIn

\* ProtectedRoute rendered in context c.
allowed(c) == session[c].isAuthenticated \/ isLoggedIn

\* ------------------------------------------------ utils/theme, ProfilePage
ThemePreferences == {"dark", "light"}
\* getItem('theme') of a store that never held a theme.
ThemeAbsent == "absent"

\* getStoredTheme(): the theme it returns, and what it leaves under 'theme'
\* (it writes 'dark' over anything that is not a theme).
getStoredTheme ==
    IF themeStored = "light" THEN [theme |-> "light", stored |-> themeStored]
    ELSE IF themeStored = "dark" THEN [theme |-> "dark", stored |-> themeStored]
    ELSE [theme |-> "dark", stored |-> "dark"]

\* handleThemeChoice(nextTheme) in context c: setTheme, and when the state
\* changed the [theme] effect runs saveThemePreference and applyThemeClass.
handleThemeChoice(c, nextTheme) ==
    LET saved == IF nextTheme # theme[c] THEN nextTheme ELSE themeStored
    IN  /\ Room(c, themeStored, saved)
        /\ theme' = [theme EXCEPT ![c] = nextTheme]
        /\ themeStored' = saved
        /\ pending' = Broadcast(pending, c, THEME_STORAGE_KEY, themeStored, saved)

\* A variant that leaves the theme as it is.
handleStorageKeepsTheme(c) ==
    /\ pending[c] # <<>>
    /\ theme' = theme
    /\ themeStored' = themeStored

\* handleStorage, the 'storage' listener of ProfilePage, for the event at
\* the head of the queue: on the theme key setTheme(getStoredTheme()), and
\* when the state changed the [theme] effect saves it.  What is under
\* 'theme' is a theme since the page has mounted, so the listener fires no
\* event of its own.
handleStorage(c) ==
    /\ pending[c] # <<>>
    /\ LET read == getStoredTheme
           next == IF Head(pending[c]) = THEME_STORAGE_KEY
                   THEN read.theme ELSE theme[c]
       IN  /\ theme' = [theme EXCEPT ![c] = next]
           /\ themeStored' = IF Head(pending[c]) # THEME_STORAGE_KEY THEN themeStored
                             ELSE IF next # theme[c] THEN next
                             ELSE read.stored

\* ------------------------------------------- SearchPage, the filter pipeline
\* A field a movie does not carry.  Scores are held in tenths (70 is 7.0),
\* a release date by its year, the genre and the year of a filter by their
\* number, 0 for the empty string.
Missing == -1
Rated(id, vote_average, popularity, genre_ids, release_date) ==
    [id |-> id, vote_average |-> vote_average, popularity |-> popularity,
     genre_ids |-> genre_ids, release_date |-> release_date]

SORT_OPTIONS ==
    {"popularity.desc", "popularity.asc", "vote_average.desc",
     "release_date.desc", "release_date.asc"}
Filters(query, genre, rating, year, sort) ==
    [query |-> query, genre |-> genre, rating |-> rating, year |-> year,
     sort |-> sort]
createDefaultFilters == Filters("", 0, 0, 0, "popularity.desc")

valueOrZero(value) == IF value = Missing THEN 0 ELSE value
releaseDateValue(value) == IF value = Missing THEN 0 ELSE value

\* comparators[sort](a, b): negative when a goes first.
comparators(sort, a, b) ==
    CASE sort = "popularity.desc" ->
            valueOrZero(b.popularity) - valueOrZero(a.popularity)
      [] sort = "popularity.asc" ->
            valueOrZero(a.popularity) - valueOrZero(b.popularity)
      [] sort = "vote_average.desc" ->
            valueOrZero(b.vote_average) - valueOrZero(a.vote_average)
      [] sort = "release_date.desc" ->
            releaseDateValue(b.release_date) - releaseDateValue(a.release_date)
      [] sort = "release_date.asc" ->
            releaseDateValue(a.release_date) - releaseDateValue(b.release_date)

\* Array.prototype.sort: a stable sort.  item goes in front of the first
\* element that the comparator puts after it.
RECURSIVE Inserted(_, _, _)
Inserted(sorted, item, sort) ==
    IF sorted = <<>> THEN <<item>>
    ELSE IF comparators(sort, Head(sorted), item) > 0
         THEN <<item>> \o sorted
         ELSE <<Head(sorted)>> \o Inserted(Tail(sorted), item, sort)

RECURSIVE Sorted(_, _)
Sorted(list, sort) ==
    IF list = <<>> THEN <<>>
    ELSE Inserted(Sorted(SubSeq(list, 1, Len(list) - 1), sort),
                  list[Len(list)], sort)

\* A variant that leaves the rating filter out.
applyFilterPipelineNoRating(list, chosen) ==
    LET HasGenre(movie) == chosen.genre \in movie.genre_ids
        HasYear(movie) == movie.release_date = chosen.year
        byGenre == IF chosen.genre # 0 THEN SelectSeq(list, HasGenre) ELSE list
        byYear == IF chosen.year # 0 THEN SelectSeq(byGenre, HasYear)
                  ELSE byGenre
    IN  Sorted(byYear, chosen.sort)

\* applyFilterPipeline(source, filters): the genre, rating and year chosen,
\* then a sorted copy.
applyFilterPipeline(list, chosen) ==
    LET HasGenre(movie) == chosen.genre \in movie.genre_ids
        HasRating(movie) == valueOrZero(movie.vote_average) >= chosen.rating
        HasYear(movie) == movie.release_date = chosen.year
        byGenre == IF chosen.genre # 0 THEN SelectSeq(list, HasGenre) ELSE list
        byRating == IF chosen.rating > 0 THEN SelectSeq(byGenre, HasRating)
                    ELSE byGenre
        byYear == IF chosen.year # 0 THEN SelectSeq(byRating, HasYear)
                  ELSE byRating
    IN  Sorted(byYear, chosen.sort)

\* ------------------------- SearchPage, PopularPage, MovieDetailPage: fetches
\* Each page keeps the controller of its latest fetch in a ref and aborts it
\* when it issues the next one.  fetch() rejects with an AbortError once its
\* signal is aborted, and the code after the last await of a fetch runs in
\* the task that delivers the response, so a fetch settles with an
\* AbortError exactly when its controller has been aborted.
Sites == {"search", "popular", "detail"}

PageStep(op, aborted) == [op |-> op, aborted |-> aborted]

\* A movie of a response, and the payload of a list response.
Titled(id, title, name, vote_average, popularity) ==
    [id |-> id, title |-> title, name |-> name, vote_average |-> vote_average,
     popularity |-> popularity, genre_ids |-> {}, release_date |-> Missing]
PagePayload(has, results, page, total_pages) ==
    [hasResults |-> has, results |-> results, page |-> page,
     total_pages |-> total_pages]
PagePayloads ==
    { PagePayload(FALSE, <<>>, Missing, Missing),
      PagePayload(TRUE, <<Titled(5, "Heat", "", 82, 10),
                          Titled(7, "", "Dark", 70, 30)>>, Missing, 2),
      PagePayload(TRUE, <<Titled(7, "Dark", "", 65, Missing)>>, 1, Missing) }
DetailPayloads == { Titled(5, "Heat", "", 82, 10), Titled(7, "", "Dark", 70, 30) }

\* How the fetch of a request settles.
PageOutcomes(request) ==
    IF request.aborted
    THEN { [kind |-> "abort", payload |-> PagePayload(FALSE, <<>>, Missing, Missing)] }
    ELSE { [kind |-> "ok", payload |-> p] : p \in PagePayloads } \cup
         { [kind |-> k, payload |-> PagePayload(FALSE, <<>>, Missing, Missing)] :
             k \in {"401", "500", "network"} }
DetailOutcomes(request) ==
    IF request.aborted
    THEN { [kind |-> "abort", movie |-> Titled(0, "", "", Missing, Missing)] }
    ELSE { [kind |-> "ok", movie |-> m] : m \in DetailPayloads } \cup
         { [kind |-> k, movie |-> Titled(0, "", "", Missing, Missing)] :
             k \in {"401", "500", "network"} }

\* A fetch under way: its controller, and the arguments of the call.
Request(targetFilters, targetPage, append) ==
    [aborted |-> FALSE, current |-> TRUE, filters |-> targetFilters,
     page |-> targetPage, append |-> append]

\* A variant that leaves the previous controller alone.
IssuedNoAbort(reqs, request) ==
    Append([i \in 1..Len(reqs) |-> [reqs[i] EXCEPT !.current = FALSE]], request)

\* requestController.current?.abort(); requestController.current = controller
Issued(reqs, request) ==
    Append([i \in 1..Len(reqs) |->
               IF reqs[i].current
               THEN [reqs[i] EXCEPT !.aborted = TRUE, !.current = FALSE]
               ELSE reqs[i]],
           request)

\* abortRef.current?.abort() of an effect cleanup: the ref keeps the controller.
Aborted(reqs) ==
    [i \in 1..Len(reqs) |->
        IF reqs[i].current THEN [reqs[i] EXCEPT !.aborted = TRUE] ELSE reqs[i]]

\* ------------------------------------------------------------- SearchPage
SearchFilters ==
    { createDefaultFilters,
      Filters("x", 0, 0, 0, "popularity.desc"),
      Filters("", 0, 70, 0, "vote_average.desc") }

Timer(targetFilters) == [filters |-> targetFilters, ref |-> TRUE]
IsSet(timer) == ~timer.ref
\* window.clearTimeout(debounceRef.current); debounceRef.current = null
Cleared(ts) == SelectSeq(ts, IsSet)
\* debounceRef.current = window.setTimeout(...)
Forgotten(ts) == [i \in 1..Len(ts) |-> [ts[i] EXCEPT !.ref = FALSE]]

\* fetchMovies(targetFilters) of SearchPage, up to the await.
SearchPage_fetchMovies(targetFilters) ==
    IF pageKey = <<>>
    THEN /\ siteMovies' = <<>>
         /\ siteError' = MissingKeyMessage
         /\ siteLoading' = FALSE
         /\ requests' = requests
    ELSE /\ Len(requests) < MaxInflight
         /\ requests' = Issued(requests, Request(targetFilters, 1, FALSE))
         /\ siteLoading' = TRUE
         /\ siteError' = NoError
         /\ siteMovies' = siteMovies

\* A variant whose effect sets its timer without clearing the one before.
searchEffectNoClear(targetFilters) ==
    IF pageKey = <<>>
    THEN /\ siteMovies' = <<>>
         /\ siteError' = MissingKeyMessage
         /\ siteLoading' = FALSE
         /\ firstLoadRef' = TRUE
         /\ timers' = timers
         /\ requests' = requests
    ELSE IF firstLoadRef
    THEN /\ firstLoadRef' = FALSE
         /\ timers' = timers
         /\ SearchPage_fetchMovies(targetFilters)
    ELSE /\ Len(timers) < MaxInflight
         /\ timers' = Append(Forgotten(timers), Timer(targetFilters))
         /\ UNCHANGED <<firstLoadRef, siteMovies, siteError, siteLoading,
                        requests>>

\* The effect on [fetchMovies, filters, resolvedKey], after the cleanup of
\* the run before it: without a key it reports the missing key, on the
\* first load it fetches at once, afterwards it sets a timer of 350 ms.
searchEffect(targetFilters) ==
    IF pageKey = <<>>
    THEN /\ siteMovies' = <<>>
         /\ siteError' = MissingKeyMessage
         /\ siteLoading' = FALSE
         /\ firstLoadRef' = TRUE
         /\ timers' = Cleared(timers)
         /\ requests' = requests
    ELSE IF firstLoadRef
    THEN /\ firstLoadRef' = FALSE
         /\ timers' = Cleared(timers)
         /\ SearchPage_fetchMovies(targetFilters)
    ELSE /\ timers' = Append(Cleared(timers), Timer(targetFilters))
         /\ UNCHANGED <<firstLoadRef, siteMovies, siteError, siteLoading,
                        requests>>

\* The page mounts: the effect runs for the first time.
SearchStart ==
    /\ site = "search" /\ ~started
    /\ started' = TRUE
    /\ searchEffect(filters)
    /\ pageLast' = PageStep("start", FALSE)
    /\ UNCHANGED <<site, pageKey, filters, viewMode, pendingPageRef, hasMore,
                   sitePage>>

\* handleQueryChange, handleSelectChange, handleRatingChange,
\* handleResetFilters: setFilters with a new object, and the effect runs.
handleFilterChange(nextFilters) ==
    /\ site = "search" /\ started
    /\ filters' = nextFilters
    /\ searchEffect(nextFilters)
    /\ pageLast' = PageStep("change", FALSE)
    /\ UNCHANGED <<site, started, pageKey, viewMode, pendingPageRef, hasMore,
                   sitePage>>

\* The quiet period of timer i is over: its callback runs.
debounceFires(i) ==
    /\ site = "search" /\ started
    /\ timers' = Remove(timers, i)
    /\ SearchPage_fetchMovies(timers[i].filters)
    /\ pageLast' = PageStep("timer", FALSE)
    /\ UNCHANGED <<site, started, pageKey, filters, firstLoadRef, viewMode,
                   pendingPageRef, hasMore, sitePage>>

handleSubmit ==
    /\ site = "search" /\ started
    /\ timers' = Cleared(timers)
    /\ SearchPage_fetchMovies(filters)
    /\ pageLast' = PageStep("submit", FALSE)
    /\ UNCHANGED <<site, started, pageKey, filters, firstLoadRef, viewMode,
                   pendingPageRef, hasMore, sitePage>>

\* The fetch of requests[i] settles: the rest of SearchPage's fetchMovies.
SearchSettle(i, outcome) ==
    LET request == requests[i]
        list == normalized(outcome.payload)
    IN  /\ site = "search"
        /\ requests' = Remove(requests, i)
        /\ IF outcome.kind = "ok"
           THEN /\ siteMovies' = applyFilterPipeline(list, request.filters)
                /\ siteError' = siteError
           ELSE IF request.aborted
           THEN UNCHANGED <<siteMovies, siteError>>
           ELSE /\ siteMovies' = <<>>
                /\ siteError' = errorMessage(outcome)
        /\ siteLoading' = IF request.current THEN FALSE ELSE siteLoading
        /\ pageLast' = PageStep("settle", request.aborted)
        /\ UNCHANGED <<site, started, pageKey, filters, timers, firstLoadRef,
                       viewMode, pendingPageRef, hasMore, sitePage>>

\* ------------------------------------------------------------ PopularPage
\* fetchMovies(targetPage, append) of PopularPage, up to the await; list and
\* more are the movies and hasMore the caller leaves.
PopularPage_fetchMovies(targetPage, append, list, more) ==
    IF pageKey = <<>>
    THEN /\ siteMovies' = <<>>
         /\ hasMore' = FALSE
         /\ siteError' = MissingKeyMessage
         /\ siteLoading' = FALSE
         /\ UNCHANGED <<requests, pendingPageRef>>
    ELSE /\ Len(requests) < MaxInflight
         /\ pendingPageRef' = targetPage
         /\ requests' = Issued(requests,
                               Request(createDefaultFilters, targetPage, append))
         /\ siteLoading' = TRUE
         /\ siteError' = NoError
         /\ siteMovies' = list
         /\ hasMore' = more

resetAndLoadFirstPage ==
    /\ sitePage' = 1
    /\ IF pageKey = <<>>
       THEN /\ siteMovies' = <<>>
            /\ hasMore' = TRUE
            /\ pendingPageRef' = Missing
            /\ siteError' = MissingKeyMessage
            /\ siteLoading' = FALSE
            /\ requests' = requests
       ELSE PopularPage_fetchMovies(1, FALSE, <<>>, TRUE)

PopularStart ==
    /\ site = "popular" /\ ~started
    /\ started' = TRUE
    /\ resetAndLoadFirstPage
    /\ pageLast' = PageStep("start", FALSE)
    /\ UNCHANGED <<site, pageKey, filters, timers, firstLoadRef, viewMode>>

handleModeChange(mode) ==
    /\ site = "popular" /\ started
    /\ mode # viewMode
    /\ viewMode' = mode
    /\ resetAndLoadFirstPage
    /\ pageLast' = PageStep("mode", FALSE)
    /\ UNCHANGED <<site, started, pageKey, filters, timers, firstLoadRef>>

\* The pagination buttons are disabled while loading, on page 1 (previous)
\* and without more pages (next).
handlePaginate(direction) ==
    LET targetPage == IF direction = "previous" THEN sitePage - 1
                      ELSE sitePage + 1
    IN  /\ site = "popular" /\ started
        /\ viewMode = "table"
        /\ ~siteLoading
        /\ direction = "previous" => sitePage # 1
        /\ direction = "next" => hasMore
        /\ targetPage <= MaxPage
        /\ PopularPage_fetchMovies(targetPage, FALSE, siteMovies, hasMore)
        /\ pageLast' = PageStep("paginate", FALSE)
        /\ UNCHANGED <<site, started, pageKey, filters, timers, firstLoadRef,
                       viewMode, sitePage>>

\* The timer of handleScroll fires near the bottom of the page.
handleScroll ==
    /\ site = "popular" /\ started
    /\ viewMode = "infinite"
    /\ hasMore /\ ~siteLoading
    /\ sitePage + 1 <= MaxPage
    /\ PopularPage_fetchMovies(sitePage + 1, TRUE, siteMovies, hasMore)
    /\ pageLast' = PageStep("scroll", FALSE)
    /\ UNCHANGED <<site, started, pageKey, filters, timers, firstLoadRef,
                   viewMode, sitePage>>

\* The Retry button under the error message.
handleRetry ==
    LET retryPage == IF pendingPageRef # Missing THEN pendingPageRef
                     ELSE IF sitePage > 1 THEN sitePage ELSE 1
        append == viewMode = "infinite" /\ (Len(siteMovies) > 0 \/ retryPage > 1)
    IN  /\ site = "popular" /\ started
        /\ siteError # NoError
        /\ PopularPage_fetchMovies(retryPage, append, siteMovies, hasMore)
        /\ pageLast' = PageStep("retry", FALSE)
        /\ UNCHANGED <<site, started, pageKey, filters, timers, firstLoadRef,
                       viewMode, sitePage>>

Deduped(current, list) ==
    LET IsNew(item) == ~some(current, item.id)
    IN  current \o SelectSeq(list, IsNew)

\* A variant whose finally block clears loading for the current fetch only.
PopularSettleGuarded(i, outcome) ==
    LET request == requests[i]
        list == normalized(outcome.payload)
        newPage == IF outcome.payload.page # Missing THEN outcome.payload.page
                   ELSE request.page
    IN  /\ site = "popular"
        /\ requests' = Remove(requests, i)
        /\ IF outcome.kind = "ok"
           THEN /\ siteMovies' = IF ~request.append THEN list
                                 ELSE Deduped(siteMovies, list)
                /\ sitePage' = newPage
                /\ hasMore' = IF outcome.payload.total_pages \notin {Missing, 0}
                              THEN newPage < outcome.payload.total_pages
                              ELSE Len(list) > 0
                /\ pendingPageRef' = Missing
                /\ siteError' = siteError
           ELSE /\ UNCHANGED <<siteMovies, sitePage, hasMore, pendingPageRef>>
                /\ siteError' = IF request.aborted THEN siteError
                                ELSE errorMessage(outcome)
        /\ siteLoading' = IF request.current THEN FALSE ELSE siteLoading
        /\ pageLast' = PageStep("settle", request.aborted)
        /\ UNCHANGED <<site, started, pageKey, filters, timers, firstLoadRef,
                       viewMode>>

\* The fetch of requests[i] settles: the rest of PopularPage's fetchMovies.
PopularSettle(i, outcome) ==
    LET request == requests[i]
        list == normalized(outcome.payload)
        newPage == IF outcome.payload.page # Missing THEN outcome.payload.page
                   ELSE request.page
    IN  /\ site = "popular"
        /\ requests' = Remove(requests, i)
        /\ IF outcome.kind = "ok"
           THEN /\ siteMovies' = IF ~request.append THEN list
                                 ELSE Deduped(siteMovies, list)
                /\ sitePage' = newPage
                /\ hasMore' = IF outcome.payload.total_pages \notin {Missing, 0}
                              THEN newPage < outcome.payload.total_pages
                              ELSE Len(list) > 0
                /\ pendingPageRef' = Missing
                /\ siteError' = siteError
           ELSE /\ UNCHANGED <<siteMovies, sitePage, hasMore, pendingPageRef>>
                /\ siteError' = IF request.aborted THEN siteError
                                ELSE errorMessage(outcome)
        /\ siteLoading' = FALSE
        /\ pageLast' = PageStep("settle", request.aborted)
        /\ UNCHANGED <<site, started, pageKey, filters, timers, firstLoadRef,
                       viewMode>>

\* -------------------------------------------------------- MovieDetailPage
\* fetchMovie(), up to the await; reqs are the fetches the cleanup left.
fetchMovie(reqs) ==
    IF pageKey = <<>>
    THEN /\ siteError' = MissingKeyMessage
         /\ siteMovies' = <<>>
         /\ siteLoading' = FALSE
         /\ requests' = reqs
    ELSE /\ Len(reqs) < MaxInflight
         /\ requests' = Issued(reqs, Request(createDefaultFilters, 1, FALSE))
         /\ siteLoading' = TRUE
         /\ siteError' = NoError
         /\ siteMovies' = siteMovies

DetailStart ==
    /\ site = "detail" /\ ~started
    /\ started' = TRUE
    /\ fetchMovie(requests)
    /\ pageLast' = PageStep("start", FALSE)
    /\ UNCHANGED <<site, pageKey, filters, timers, firstLoadRef, viewMode,
                   pendingPageRef, hasMore, sitePage>>

\* The id of the route changes: the cleanup of the effect aborts the fetch
\* under way and the effect calls the new fetchMovie.
DetailNavigate ==
    /\ site = "detail" /\ started
    /\ fetchMovie(Aborted(requests))
    /\ pageLast' = PageStep("navigate", FALSE)
    /\ UNCHANGED <<site, started, pageKey, filters, timers, firstLoadRef,
                   viewMode, pendingPageRef, hasMore, sitePage>>

\* The fetch of requests[i] settles: the rest of fetchMovie.
DetailSettle(i, outcome) ==
    LET request == requests[i]
    IN  /\ site = "detail"
        /\ requests' = Remove(requests, i)
        /\ IF outcome.kind = "ok"
           THEN /\ siteMovies' = <<normalizeMovie(outcome.movie)>>
                /\ siteError' = siteError
           ELSE IF request.aborted
           THEN UNCHANGED <<siteMovies, siteError>>
           ELSE /\ siteMovies' = <<>>
                /\ siteError' = errorMessage(outcome)
        /\ siteLoading' = IF ~request.aborted THEN FALSE ELSE siteLoading
        /\ pageLast' = PageStep("settle", request.aborted)
        /\ UNCHANGED <<site, started, pageKey, filters, timers, firstLoadRef,
                       viewMode, pendingPageRef, hasMore, sitePage>>

\* ------------------------------------------------------------ initial states
\* No component uses the hook, nothing is cached, no fetch is under way.
HookIdle ==
    /\ keyStored = Null
    /\ mounted = FALSE
    /\ endpoint = "/movie/popular"
    /\ tmdbKeyOption = Undefined
    /\ movies = <<>>
    /\ loading = FALSE
    /\ error = NoError
    /\ movieCache = [ep \in Endpoints |-> NotCached]
    /\ lastServed = [ep \in Endpoints |-> NotCached]
    /\ inflight = <<>>
    /\ hookRun = HookRun(Null, FALSE)
    /\ hookLast = HookStep("none", FALSE)

\* No account is registered, no sign-in page shows a status.
AuthIdle ==
    /\ usersStored = Absent
    /\ signLast = Submission("none", 0, <<>>, <<>>, <<>>, "none")

\* Nobody has logged in; every context has mounted AuthProvider.
SessIdle ==
    /\ flagStored = FlagAbsent
    /\ rememberStored = Null
    /\ session = [c \in Contexts |-> Session(FALSE, <<>>)]
    /\ pc = [c \in Contexts |-> Idle]
    /\ sessLast = NoSessOp
    /\ seen = {}

\* No profile page has been opened, no operation has been started.
ThemeIdle ==
    /\ themeStored = ThemeAbsent
    /\ theme = [c \in Contexts |-> "dark"]
    /\ ops = 0

\* No search has run.
PipeIdle ==
    /\ source = <<>>
    /\ pipeFilters = createDefaultFilters
    /\ filtered = <<>>

\* The tab shows none of the three pages.
PageIdle ==
    /\ site = "none"
    /\ started = FALSE
    /\ pageKey = <<>>
    /\ filters = createDefaultFilters
    /\ timers = <<>>
    /\ firstLoadRef = TRUE
    /\ viewMode = "table"
    /\ pendingPageRef = Missing
    /\ hasMore = TRUE
    /\ sitePage = 1
    /\ siteMovies = <<>>
    /\ siteLoading = FALSE
    /\ siteError = NoError
    /\ requests = <<>>
    /\ pageLast = PageStep("none", FALSE)

UiIdle == PipeIdle /\ PageIdle

\* Every context has mounted the wishlist hook on an empty store.
WishIdle ==
    /\ wlStored = JSON_stringify(<<>>)
    /\ wishlist = [c \in Contexts |-> <<>>]
    /\ pending = [c \in Contexts |-> <<>>]
    /\ wlLast = NoOp
    /\ wlBefore = <<>>
    /\ wlPrev = NoPrev

\* ------------------------------------------------------- wishlist, contexts
WishInit == WishIdle /\ HookIdle /\ AuthIdle /\ SessIdle /\ ThemeIdle /\ UiIdle

WishToggle == \E c \in Contexts, entry \in SharedEntries :
    toggleWishlist(c, entry) /\ UNCHANGED <<wlBefore, wlPrev, notWish>>
WishSync == \E c \in Contexts :
    syncFromStorage(c) /\ UNCHANGED <<wlBefore, wlPrev, notWish>>
WishMount == \E c \in Contexts :
    useWishlist(c) /\ UNCHANGED <<wlBefore, wlPrev, notWish>>

WishNext == WishToggle \/ WishSync \/ WishMount

WishSpec == WishInit /\ [][WishNext]_vars

\* ------------------------------------------- wishlist, runs of toggles
\* The collections a wishlist can hold: sequences of entries, no id twice.
NoDuplicateIds(list) ==
    \A i, j \in 1..Len(list) : list[i].id = list[j].id => i = j

Wishlists ==
    { w \in UNION { [1..n -> Entries] : n \in 0..Cardinality(MovieIds) } :
        NoDuplicateIds(w) }

\* Runs of toggles with no notification delivered in between, from a state
\* where all contexts are in sync on some wishlist.  wlBefore and wlPrev
\* record the acting context's wishlist before each of the last two toggles.
ToggleInit ==
    /\ \E w \in Wishlists :
          /\ wlStored = JSON_stringify(w)
          /\ wishlist = [c \in Contexts |-> w]
    /\ pending = [c \in Contexts |-> <<>>]
    /\ wlLast = NoOp
    /\ wlBefore = <<>>
    /\ wlPrev = NoPrev
    /\ HookIdle
    /\ AuthIdle
    /\ SessIdle
    /\ ThemeIdle
    /\ UiIdle

Shift(c) ==
    /\ wlBefore' = wishlist[c]
    /\ wlPrev' = [op |-> wlLast.op, ctx |-> wlLast.ctx, entry |-> wlLast.entry,
                  before |-> wlBefore]

RunToggle == \E c \in Contexts, entry \in Entries :
    toggleWishlist(c, entry) /\ Shift(c) /\ UNCHANGED notWish

ToggleNext == RunToggle

ToggleSpec == ToggleInit /\ [][ToggleNext]_vars

\* ------------------------------------------------------- useMovies, one hook
\* The persisted key is what the session left: nothing, or a key.
StoredKeys == {Null, <<"k">>}

HookStart ==
    /\ keyStored \in StoredKeys
    /\ mounted = FALSE
    /\ endpoint = "/movie/popular"
    /\ tmdbKeyOption = Undefined
    /\ movies = <<>>
    /\ loading = FALSE
    /\ error = NoError
    /\ movieCache = [ep \in Endpoints |-> NotCached]
    /\ lastServed = [ep \in Endpoints |-> NotCached]
    /\ inflight = <<>>
    /\ hookRun = HookRun(Null, FALSE)
    /\ hookLast = HookStep("none", FALSE)

FetchInit == HookStart /\ WishIdle /\ AuthIdle /\ SessIdle /\ ThemeIdle /\ UiIdle

FetchMount == \E ep \in Endpoints, option \in KeyOptions :
    Mount(ep, option) /\ UNCHANGED notHook
FetchRerender == \E ep \in Endpoints, option \in KeyOptions :
    Rerender(ep, option) /\ UNCHANGED notHook
FetchUnmount == Unmount /\ UNCHANGED notHook
FetchSettle == \E i \in 1..Len(inflight), outcome \in Outcomes :
    Settle(i, outcome) /\ UNCHANGED notHook

FetchNext == FetchMount \/ FetchRerender \/ FetchUnmount \/ FetchSettle

FetchSpec == FetchInit /\ [][FetchNext]_vars

\* Every fetch gets its response or fails: a fetch under way settles.
FetchLive == FetchSpec /\ WF_vars(FetchSettle)

\* ------------------------------------------------------ accounts, contexts
AuthInit == AuthIdle /\ WishIdle /\ HookIdle /\ SessIdle /\ ThemeIdle /\ UiIdle

AuthSignUp == \E c \in Contexts, form \in SignupForms :
    handleSignUp(c, form) /\ UNCHANGED notAuth
\* The 'users' events reach the other contexts, whose wishlist hook ignores
\* them.
AuthDeliver == \E c \in Contexts :
    syncFromStorage(c) /\ UNCHANGED <<wlBefore, wlPrev, notWish>>

AuthNext == AuthSignUp \/ AuthDeliver

AuthSpec == AuthInit /\ [][AuthNext]_vars

\* ------------------------------------------------------ session, contexts
\* What a step of a session handler leaves alone.
notSess == <<wishRest, hookRest, authVars, rememberStored, syncVars, uiVars>>

SessInit == SessIdle /\ WishIdle /\ HookIdle /\ AuthIdle /\ ThemeIdle /\ UiIdle

SessLogin == \E c \in Contexts, key \in SessionKeys :
    loginWithKey(c, key) /\ UNCHANGED notSess
SessLoginDone == \E c \in Contexts :
    loginWithKeyDone(c) /\ UNCHANGED notSess
\* The header that offers the logout stays on screen until the guard is
\* rendered again, so a logout can start from any state of the store.
SessLogout == \E c \in Contexts :
    logout(c) /\ UNCHANGED notSess
SessLogoutDone == \E c \in Contexts :
    logoutDone(c) /\ UNCHANGED notSess
\* An event is delivered to context c: every 'storage' listener of the
\* context runs, the one of AuthProvider and the one of the wishlist hook.
SessDeliver == \E c \in Contexts :
    /\ syncAuth(c)
    /\ syncFromStorage(c)
    /\ UNCHANGED <<wlBefore, wlPrev, hookRest, authVars, rememberStored,
                   syncVars, uiVars>>

SessNext ==
    SessLogin \/ SessLoginDone \/ SessLogout \/ SessLogoutDone \/ SessDeliver

SessSpec == SessInit /\ [][SessNext]_vars

\* ------------------------------------------- accounts and sessions, contexts
\* Sequences of whole operations, issued from any context: an operation
\* starts when no handler is under way and the events of the earlier ones
\* have been delivered; the events of an operation are delivered while it
\* runs or after it.  (SessSpec has the interleavings of the session
\* handlers; none of their steps reads or writes 'users'.)
Quiet == \A c \in Contexts : pc[c].op = "idle" /\ pending[c] = <<>>

\* The forms of the sign-up page: three that pass the checks, and one for
\* each check that refuses a form.
AccountForms ==
    { SignupForm(<<"a", "@", "b">>, <<"k">>, <<"k">>, TRUE),
      SignupForm(<<" ", "A", "@", "b", " ">>, <<" ", "j">>, <<" ", "j">>, TRUE),
      SignupForm(<<"b", "@", "b">>, <<"k">>, <<"k">>, TRUE),
      SignupForm(<<"a", " ", "b">>, <<"k">>, <<"k">>, TRUE),
      SignupForm(<<"b", "@", "b">>, <<" ">>, <<>>, TRUE),
      SignupForm(<<"b", "@", "b">>, <<"k">>, <<"j">>, TRUE),
      SignupForm(<<"b", "@", "b">>, <<"k">>, <<"k">>, FALSE) }

AcctInit == SessInit

AcctSignUp == \E c \in Contexts, form \in AccountForms :
    /\ Quiet
    /\ handleSignUp(c, form)
    /\ UNCHANGED notAuth
AcctSignIn == \E c \in Contexts, form \in LoginForms :
    /\ Quiet
    /\ handleSignIn(c, form)
    /\ UNCHANGED <<wishRest, hookRest, syncVars, uiVars>>
AcctLoginDone == \E c \in Contexts :
    loginWithKeyDone(c) /\ UNCHANGED notSess
AcctLogout == \E c \in Contexts :
    /\ Quiet
    /\ logout(c)
    /\ UNCHANGED notSess
AcctLogoutDone == \E c \in Contexts :
    logoutDone(c) /\ UNCHANGED notSess
AcctDeliver == \E c \in Contexts :
    /\ syncAuth(c)
    /\ syncFromStorage(c)
    /\ UNCHANGED <<wlBefore, wlPrev, hookRest, authVars, rememberStored,
                   syncVars, uiVars>>

AcctNext ==
    \/ AcctSignUp \/ AcctSignIn \/ AcctLoginDone
    \/ AcctLogout \/ AcctLogoutDone \/ AcctDeliver

AcctSpec == AcctInit /\ [][AcctNext]_vars

\* The users keep using the application: sign-ups, sign-ins and logouts
\* that can be made again and again are made, and a handler under way and
\* an event in a queue are not left waiting for ever.
AcctLive ==
    /\ AcctSpec
    /\ SF_vars(AcctSignUp) /\ SF_vars(AcctSignIn) /\ SF_vars(AcctLogout)
    /\ WF_vars(AcctLoginDone) /\ WF_vars(AcctLogoutDone) /\ WF_vars(AcctDeliver)

\* ------------------------------------- wishlist, session and theme, contexts
\* Every context has its AuthProvider, a wishlist hook and the profile page
\* mounted, so every context holds a copy of each persisted value.  The
\* users start at most MaxOps operations; the events are delivered and the
\* handlers under way are finished whether or not they start more.
SyncEntries == { WishlistEntry(5, "Untitled") }
SyncKeys == { <<"k">> }

\* Mounting the profile pages has left the default theme in the store.
SyncInit ==
    /\ WishIdle /\ HookIdle /\ AuthIdle /\ SessIdle /\ UiIdle
    /\ themeStored = "dark"
    /\ theme = [c \in Contexts |-> "dark"]
    /\ ops = 0

Started == ops < MaxOps /\ ops' = ops + 1

\* The events the handlers under way have still to fire in context d, and
\* the room an operation of context c that fires n events needs: no queue
\* is filled so far that a handler under way could not write.
Owed(d) == Cardinality({ e \in Contexts \ {d} : pc[e].op # "idle" })
Reserved(c, n) ==
    \A d \in Contexts \ {c} : Len(pending[d]) + Owed(d) + n <= MaxPending

SyncToggle == \E c \in Contexts, entry \in SyncEntries :
    /\ pc[c].op = "idle"
    /\ Reserved(c, 1)
    /\ toggleWishlist(c, entry)
    /\ Started
    /\ UNCHANGED <<wlBefore, wlPrev, hookVars, authVars, sessVars,
                   themeStored, theme, uiVars>>
SyncLogin == \E c \in Contexts, key \in SyncKeys :
    /\ Reserved(c, 2)
    /\ loginWithKey(c, key)
    /\ Started
    /\ UNCHANGED <<wishRest, hookRest, authVars, rememberStored,
                   themeStored, theme, uiVars>>
SyncLoginDone == \E c \in Contexts :
    loginWithKeyDone(c) /\ UNCHANGED notSess
SyncLogout == \E c \in Contexts :
    /\ Reserved(c, 2)
    /\ logout(c)
    /\ Started
    /\ UNCHANGED <<wishRest, hookRest, authVars, rememberStored,
                   themeStored, theme, uiVars>>
SyncLogoutDone == \E c \in Contexts :
    logoutDone(c) /\ UNCHANGED notSess
SyncTheme == \E c \in Contexts, nextTheme \in ThemePreferences :
    /\ pc[c].op = "idle"
    /\ nextTheme # theme[c]
    /\ Reserved(c, 1)
    /\ handleThemeChoice(c, nextTheme)
    /\ Started
    /\ UNCHANGED <<wishRest, hookVars, authVars, sessVars, uiVars>>
\* An event is delivered to context c: its three listeners run.
SyncDeliver == \E c \in Contexts :
    /\ syncAuth(c)
    /\ syncFromStorage(c)
    /\ handleStorage(c)
    /\ UNCHANGED <<wlBefore, wlPrev, hookRest, authVars, rememberStored, ops,
                   uiVars>>

SyncNext ==
    \/ SyncToggle \/ SyncLogin \/ SyncLoginDone \/ SyncLogout
    \/ SyncLogoutDone \/ SyncTheme \/ SyncDeliver

\* The event loop of a context delivers its queued events, and a handler
\* that has started runs to its end.
SyncSpec ==
    /\ SyncInit /\ [][SyncNext]_vars
    /\ WF_vars(SyncDeliver)
    /\ WF_vars(SyncLoginDone)
    /\ WF_vars(SyncLogoutDone)

\* ----------------------------- accounts, sessions, wishlist and theme, contexts
\* The whole of what a user does between two visits: an account, a login,
\* the wishlist and the theme of the pages behind the login, and a logout.
HomeForms ==
    { SignupForm(<<"a", "@", "b">>, <<"k">>, <<"k">>, TRUE),
      SignupForm(<<"b", "@", "b">>, <<"k">>, <<"k">>, TRUE) }
HomeLogins ==
    { LoginForm(<<"a", "@", "b">>, <<"k">>, TRUE),
      LoginForm(<<"b", "@", "b">>, <<"k">>, FALSE) }

HomeInit == SyncInit

HomeSignUp == \E c \in Contexts, form \in HomeForms :
    /\ Quiet
    /\ handleSignUp(c, form)
    /\ UNCHANGED notAuth
HomeSignIn == \E c \in Contexts, form \in HomeLogins :
    /\ Quiet
    /\ handleSignIn(c, form)
    /\ UNCHANGED <<wishRest, hookRest, syncVars, uiVars>>
HomeLoginDone == \E c \in Contexts :
    loginWithKeyDone(c) /\ UNCHANGED notSess
\* The pages with the wishlist are behind ProtectedRoute.
HomeToggle == \E c \in Contexts, entry \in SyncEntries :
    /\ Quiet
    /\ session[c].isAuthenticated
    /\ toggleWishlist(c, entry)
    /\ UNCHANGED <<wlBefore, wlPrev, hookVars, authVars, sessVars, syncVars,
                   uiVars>>
HomeTheme == \E c \in Contexts, nextTheme \in ThemePreferences :
    /\ Quiet
    /\ nextTheme # theme[c]
    /\ handleThemeChoice(c, nextTheme)
    /\ UNCHANGED <<wishRest, hookVars, authVars, sessVars, ops, uiVars>>
\* A variant of the logout that forgets the remembered id as well.
HomeLogoutForgets == \E c \in Contexts :
    /\ Quiet
    /\ logout(c)
    /\ rememberStored' = Null
    /\ UNCHANGED <<wishRest, hookRest, authVars, syncVars, uiVars>>
HomeLogout == \E c \in Contexts :
    /\ Quiet
    /\ logout(c)
    /\ UNCHANGED notSess
HomeLogoutDone == \E c \in Contexts :
    logoutDone(c) /\ UNCHANGED notSess
HomeDeliver == \E c \in Contexts :
    /\ syncAuth(c)
    /\ syncFromStorage(c)
    /\ handleStorage(c)
    /\ UNCHANGED <<wlBefore, wlPrev, hookRest, authVars, rememberStored, ops,
                   uiVars>>

HomeNext ==
    \/ HomeSignUp \/ HomeSignIn \/ HomeLoginDone \/ HomeToggle \/ HomeTheme
    \/ HomeLogout \/ HomeLogoutDone \/ HomeDeliver

HomeSpec == HomeInit /\ [][HomeNext]_vars

\* --------------------------------------------- the filter pipeline, alone
\* The movies of a response: with equal scores, without a score, without a
\* popularity, below and above 7.0.
RatedMovies ==
    { Rated(1, 82, 10, {28}, 2020),
      Rated(2, 70, 30, {28, 12}, 2019),
      Rated(3, 70, 20, {}, 2020),
      Rated(4, Missing, 40, {12}, Missing),
      Rated(5, 65, Missing, {28}, 2019) }

RECURSIVE ListsUpTo(_)
ListsUpTo(n) ==
    IF n = 0 THEN { <<>> }
    ELSE LET shorter == ListsUpTo(n - 1)
         IN  shorter \cup { Append(list, movie) :
                              list \in shorter, movie \in RatedMovies }

FilterChoices ==
    { Filters("", genre, rating, year, sort) :
        genre \in {0, 28}, rating \in {0, 70}, year \in {0, 2020},
        sort \in SORT_OPTIONS }

PipeInit ==
    /\ WishIdle /\ HookIdle /\ AuthIdle /\ SessIdle /\ ThemeIdle /\ PageIdle
    /\ source \in ListsUpTo(MaxList)
    /\ pipeFilters = createDefaultFilters
    /\ filtered = <<>>

\* The pipeline runs on the list of a response, with the filters of the
\* request; it works on a copy and leaves the list as it is.
PipeApply == \E chosen \in FilterChoices :
    /\ pipeFilters' = chosen
    /\ filtered' = applyFilterPipeline(source, chosen)
    /\ source' = source
    /\ UNCHANGED <<wishVars, hookVars, authVars, sessVars, syncVars, pageVars>>

PipeNext == PipeApply

PipeSpec == PipeInit /\ [][PipeNext]_vars

\* ------------------------------------------------- one page, its fetches
\* The tab shows one of the three pages, with or without a key.
PageInit ==
    /\ WishIdle /\ HookIdle /\ AuthIdle /\ SessIdle /\ ThemeIdle /\ PipeIdle
    /\ site \in Sites
    /\ started = FALSE
    /\ pageKey \in {<<>>, <<"k">>}
    /\ filters = createDefaultFilters
    /\ timers = <<>>
    /\ firstLoadRef = TRUE
    /\ viewMode = "table"
    /\ pendingPageRef = Missing
    /\ hasMore = TRUE
    /\ sitePage = 1
    /\ siteMovies = <<>>
    /\ siteLoading = (site # "search")
    /\ siteError = NoError
    /\ requests = <<>>
    /\ pageLast = PageStep("none", FALSE)

notPage == <<wishVars, hookVars, authVars, sessVars, syncVars, pipeVars>>

PageStart ==
    (SearchStart \/ PopularStart \/ DetailStart) /\ UNCHANGED notPage
PageChange == \E nextFilters \in SearchFilters :
    handleFilterChange(nextFilters) /\ UNCHANGED notPage
PageTimer == \E i \in 1..Len(timers) :
    debounceFires(i) /\ UNCHANGED notPage
PageSubmit == handleSubmit /\ UNCHANGED notPage
PageMode == \E mode \in {"table", "infinite"} :
    handleModeChange(mode) /\ UNCHANGED notPage
PagePaginate == \E direction \in {"previous", "next"} :
    handlePaginate(direction) /\ UNCHANGED notPage
PageScroll == handleScroll /\ UNCHANGED notPage
PageRetry == handleRetry /\ UNCHANGED notPage
PageNavigate == DetailNavigate /\ UNCHANGED notPage
PageSettle == \E i \in 1..Len(requests) :
    \/ \E outcome \in PageOutcomes(requests[i]) :
          (SearchSettle(i, outcome) \/ PopularSettle(i, outcome))
              /\ UNCHANGED notPage
    \/ \E outcome \in DetailOutcomes(requests[i]) :
          DetailSettle(i, outcome) /\ UNCHANGED notPage

PageNext ==
    \/ PageStart \/ PageChange \/ PageTimer \/ PageSubmit \/ PageMode
    \/ PagePaginate \/ PageScroll \/ PageRetry \/ PageNavigate \/ PageSettle

PageSpec == PageInit /\ [][PageNext]_vars

\* ------------------------------------------- a store the program did not write
\* What another program, or an earlier version, may have left under the
\* keys: nothing, the empty string, text that does not parse, JSON that is
\* not an array, and arrays with entries that lack a field.
WishlistValues ==
    { Absent, Stored("empty", <<>>), Stored("garbage", <<>>),
      Stored("object", <<>>),
      Stored("array", <<[idType |-> "string", id |-> 5, title |-> "Untitled"],
                        WishlistEntry(9, "")>>),
      Stored("array", <<[idType |-> "undefined", id |-> 0, title |-> "Untitled"],
                        WishlistEntry(7, "Untitled"),
                        WishlistEntry(9, "")>>) }
UsersValues ==
    { Absent, Stored("empty", <<>>), Stored("garbage", <<>>),
      Stored("object", <<>>),
      Stored("array", <<StoredUser(<<>>, <<"k">>)>>),
      Stored("array", <<StoredUser(<<"a", "@", "b">>, <<>>),
                        StoredUser(<<"b", "@", "b">>, <<"k">>),
                        StoredUser(<<>>, <<"j">>)>>) }

\* The sign-up forms that pass the checks of the page.
StoreForms ==
    { form \in AccountForms :
        /\ validateEmail(normalizedEmail(form.email))
        /\ trim(form.password) # <<>>
        /\ trim(form.password) = trim(form.confirm)
        /\ form.agree }

\* Context 1 is about to load the application; the other contexts hold an
\* empty wishlist.
StoreInit ==
    /\ wlStored \in WishlistValues
    /\ wishlist = [c \in Contexts |-> <<>>]
    /\ pending = [c \in Contexts |-> <<>>]
    /\ wlLast = NoOp
    /\ wlBefore = <<>>
    /\ wlPrev = NoPrev
    /\ usersStored \in UsersValues
    /\ signLast = Submission("none", 0, <<>>, <<>>, <<>>, "none")
    /\ HookIdle /\ SessIdle /\ ThemeIdle /\ UiIdle

StoreMount ==
    useWishlist(1) /\ UNCHANGED <<wlBefore, wlPrev, notWish>>
StoreToggle == \E entry \in SharedEntries :
    /\ wlLast.op # "none"
    /\ pc[1].op = "idle"
    /\ toggleWishlist(1, entry)
    /\ UNCHANGED <<wlBefore, wlPrev, notWish>>
StoreSignUp == \E form \in StoreForms :
    /\ Quiet
    /\ handleSignUp(1, form)
    /\ UNCHANGED notAuth
StoreSignIn == \E form \in LoginForms :
    /\ Quiet
    /\ handleSignIn(1, form)
    /\ UNCHANGED <<wishRest, hookRest, syncVars, uiVars>>
StoreLoginDone ==
    loginWithKeyDone(1) /\ UNCHANGED notSess
StoreDeliver == \E c \in Contexts :
    /\ syncAuth(c)
    /\ syncFromStorage(c)
    /\ UNCHANGED <<wlBefore, wlPrev, hookRest, authVars, rememberStored,
                   syncVars, uiVars>>

StoreNext ==
    \/ StoreMount \/ StoreToggle \/ StoreSignUp \/ StoreSignIn
    \/ StoreLoginDone \/ StoreDeliver

StoreSpec == StoreInit /\ [][StoreNext]_vars

\* ------------------------------------------------------------------ claims
IdsOf(list) == [i \in 1..Len(list) |-> list[i].id]
Others(list, id) == SelectSeq(list, LAMBDA item : item.id # id)

\* The last two operations were toggles of the same entry in one context.
ToggledTwice ==
    /\ wlLast.op = "toggle" /\ wlPrev.op = "toggle"
    /\ wlLast.ctx = wlPrev.ctx
    /\ wlLast.entry = wlPrev.entry

\* C1 (as stated): toggling the same entry twice in one context, with no
\* notification in between, leaves the wishlist equal to the starting
\* sequence, whatever the starting wishlist.
C1_ToggleTwiceRestores ==
    ToggledTwice => wishlist[wlLast.ctx] = wlPrev.before

\* C1 (amended): toggling the same entry e twice restores the starting
\* sequence exactly when the start does not contain e.id or has e itself as
\* its first entry; otherwise the result is the start without the entry of
\* that id, with e at the head.
C1_ToggleTwiceRestoresIffAbsentOrHead ==
    ToggledTwice =>
        LET start == wlPrev.before
            e == wlLast.entry
            now == wishlist[wlLast.ctx]
        IN  /\ (now = start) <=>
                   (~some(start, e.id) \/ (start # <<>> /\ Head(start) = e))
            /\ some(start, e.id) => now = <<e>> \o Others(start, e.id)
            /\ ~some(start, e.id) => now = start

C1_Witness ==
    /\ ToggledTwice
    /\ some(wlPrev.before, wlLast.entry.id)
    /\ Len(wlPrev.before) >= 2
    /\ wishlist[wlLast.ctx] = wlPrev.before

\* C2: a toggle removes the entry with the id when present and otherwise
\* inserts the entry at the head; the other entries keep their relative
\* order.  From the empty wishlist toggle(5), toggle(7) gives [7,5], and
\* toggle(5) on [7,5] gives [7].
C2_ToggleRemovesOrPrepends ==
    wlLast.op = "toggle" =>
        LET start == wlBefore
            e == wlLast.entry
            now == wishlist[wlLast.ctx]
        IN  /\ Others(now, e.id) = Others(start, e.id)
            /\ some(start, e.id) =>
                   ~some(now, e.id) /\ Len(now) = Len(start) - 1
            /\ ~some(start, e.id) =>
                   now # <<>> /\ Head(now) = e /\ Len(now) = Len(start) + 1
            /\ ( /\ wlPrev.op = "toggle" /\ wlPrev.ctx = wlLast.ctx
                 /\ wlPrev.before = <<>>
                 /\ wlPrev.entry.id = 5 /\ e.id = 7 ) => IdsOf(now) = <<7, 5>>
            /\ (IdsOf(start) = <<7, 5>> /\ e.id = 5) => IdsOf(now) = <<7>>

C2_Witness ==
    /\ wlLast.op = "toggle" /\ wlPrev.op = "toggle"
    /\ wlPrev.ctx = wlLast.ctx
    /\ IdsOf(wlPrev.before) = <<5>> /\ wlPrev.entry.id = 7
    /\ IdsOf(wlBefore) = <<7, 5>> /\ wlLast.entry.id = 5
    /\ IdsOf(wishlist[wlLast.ctx]) = <<7>>

\* C3: in every context the in-memory wishlist, and the persisted wishlist,
\* hold no two entries with the same id.
C3_NoDuplicateIds ==
    /\ \A c \in Contexts : NoDuplicateIds(wishlist[c])
    /\ NoDuplicateIds(wlStored.items)
    /\ NoDuplicateIds(readWishlist(wlStored))

C3_Witness ==
    /\ wlLast.op = "toggle"
    /\ ~some(wishlist[wlLast.ctx], wlLast.entry.id)
    /\ \E c \in Contexts \ {wlLast.ctx} :
          /\ pending[c] # <<>>
          /\ some(wishlist[c], wlLast.entry.id)
          /\ Len(wishlist[c]) >= 2

\* C4: after a toggle in a context the persisted value is that context's
\* whole resulting collection.
C4_ToggleWritesThrough ==
    wlLast.op = "toggle" =>
        /\ wlStored = JSON_stringify(wishlist[wlLast.ctx])
        /\ readWishlist(wlStored) = wishlist[wlLast.ctx]
        /\ wlLast.changed

C4_Witness ==
    /\ wlLast.op = "toggle"
    /\ Len(wishlist[wlLast.ctx]) >= 2
    /\ wlStored = JSON_stringify(wishlist[wlLast.ctx])
    /\ \E c \in Contexts : wishlist[c] # wishlist[wlLast.ctx]

\* C5: when a notification for the wishlist key is delivered to a context,
\* its wishlist becomes the persisted one: its membership test is true for
\* exactly the persisted ids, whatever it held before.
C5_SyncReplacesWithPersisted ==
    [][ \A c \in Contexts :
          (wlLast'.op = "sync" /\ wlLast'.ctx = c) =>
              /\ wishlist'[c] = readWishlist(wlStored)
              /\ \A id \in MovieIds :
                    /\ some(wishlist'[c], id) <=> some(readWishlist(wlStored), id)
                    /\ some(wishlist'[c], id) <=> some(readWishlist(wlStored'), id)
      ]_vars

C5_Witness ==
    /\ wlLast.op = "sync"
    /\ wlLast.changed
    /\ wishlist[wlLast.ctx] # <<>>
    /\ \A id \in MovieIds :
          isInWishlist(wlLast.ctx, id) <=> some(readWishlist(wlStored), id)

\* A fetch whose effect has not been cleaned up.
Live(fetch) == ~fetch.aborted
LiveFetches == { i \in 1..Len(inflight) : Live(inflight[i]) }

\* C6: a hook instance never has two fetches that are not cancelled; the
\* one that is not cancelled is the one of the latest load; and when a
\* cancelled fetch settles, before or after the latest one, the list, the
\* error, the loading flag and the cache stay as they are.
C6_OnlyLatestFetchObservable ==
    /\ [](/\ Cardinality(LiveFetches) <= 1
          /\ \A i \in LiveFetches :
                /\ mounted
                /\ i = Len(inflight)
                /\ inflight[i].endpoint = endpoint
                /\ hookRun.requested)
    /\ [][ (hookLast'.op = "settle" /\ hookLast'.cancelled) =>
              UNCHANGED <<movies, error, loading, movieCache>> ]_vars

C6_Witness ==
    /\ hookLast.op = "settle" /\ hookLast.cancelled
    /\ LiveFetches # {}
    /\ Len(inflight) >= 2
    /\ loading

\* The caller passed no credential (none, or the empty string); the store
\* held none when the effect ran.
NonePassed == tmdbKeyOption \in {Undefined, <<>>}
NoneStored == hookRun.fallback \in {Null, <<>>}

\* C7: an effect run with no credential from either source issues no fetch
\* and leaves loading = false, an empty list and the missing-key error.
C7_NoCredentialNoRequest ==
    (mounted /\ NonePassed /\ NoneStored) =>
        /\ ~hookRun.requested
        /\ LiveFetches = {}
        /\ loading = FALSE
        /\ movies = <<>>
        /\ error = MissingKeyMessage

C7_Witness ==
    /\ mounted /\ NonePassed /\ NoneStored
    /\ error = MissingKeyMessage
    /\ inflight # <<>>
    /\ hookLast.op = "settle"
    /\ \E ep \in Endpoints : movieCache[ep].has

\* C8: the missing-key error is reported only when neither source yields a
\* credential: with none passed and a non-empty persisted secret the effect
\* uses the persisted secret and issues the fetch.
C8_FallsBackToPersistedSecret ==
    (mounted /\ NonePassed /\ ~NoneStored) =>
        /\ hookRun.requested
        /\ error # MissingKeyMessage

\* The last submission was a sign-up that passed the checks of the form.
Registered == signLast.op = "signup" /\ signLast.status \in {"created", "exists"}

\* C9: register for an identifier that the persisted collection holds fails
\* with AlreadyExists and leaves the collection as it is; register for
\* another identifier appends the one entry {id, s} and persists the whole
\* collection.
C9_RegisterRejectsExistingAppendsNew ==
    [][ (signLast' # signLast /\ signLast'.status \in {"created", "exists"}) =>
          LET before == readUsers(usersStored)
              after == readUsers(usersStored')
              id == signLast'.email
              present == \E i \in 1..Len(before) : before[i].id = id
          IN  /\ present =>
                    /\ signLast'.status = "exists"
                    /\ usersStored' = usersStored
              /\ ~present =>
                    /\ signLast'.status = "created"
                    /\ usersStored'.kind = "array"
                    /\ usersStored'.items = after
                    /\ Len(after) = Len(before) + 1
                    /\ SubSeq(after, 1, Len(before)) = before
                    /\ after[Len(after)] = StoredUser(id, signLast'.password)
      ]_vars

C9_Witness ==
    /\ Registered /\ signLast.status = "exists"
    /\ Len(readUsers(usersStored)) >= 2
    /\ \E i \in 1..Len(readUsers(usersStored)) :
          /\ readUsers(usersStored)[i].id = signLast.email
          /\ readUsers(usersStored)[i].password # signLast.password

\* An identifier in normal form: no upper-case letter, no blank at either end.
IsNormalForm(id) ==
    /\ \A i \in 1..Len(id) : id[i] \notin {"A", "B"}
    /\ id # <<>> => (id[1] # " " /\ id[Len(id)] # " ")

\* Two identifiers that differ at most in letter case and in blanks around.
SameModuloCaseAndBlanks(x, y) == toLowerCase(trim(x)) = toLowerCase(trim(y))

\* C10: register compares and stores the normalized identifier: an
\* identifier that differs from a registered one only in letter case or
\* blanks around it fails with AlreadyExists, and every stored identifier
\* is in normal form.
C10_RegisterNormalizesIdentifier ==
    /\ [](\A i \in 1..Len(readUsers(usersStored)) :
            IsNormalForm(readUsers(usersStored)[i].id))
    /\ [][ (signLast' # signLast /\ signLast'.status \in {"created", "exists"}) =>
              LET before == readUsers(usersStored)
              IN  (\E i \in 1..Len(before) :
                      SameModuloCaseAndBlanks(before[i].id, signLast'.raw)) =>
                      /\ signLast'.status = "exists"
                      /\ usersStored' = usersStored
          ]_vars

C10_Witness ==
    /\ Registered /\ signLast.status = "exists"
    /\ signLast.raw # signLast.email
    /\ ~IsNormalForm(signLast.raw)
    /\ \E i \in 1..Len(readUsers(usersStored)) :
          readUsers(usersStored)[i].id = signLast.email

\* The entries as they are persisted under 'users'.
StoredUsers == IF usersStored.kind = "array" THEN usersStored.items ELSE <<>>

\* A step of handleSignIn that got as far as authenticateUser.
Authenticated ==
    /\ signLast'.op = "signin"
    /\ signLast'.status \in {"signed-in", "invalid-credentials"}
    /\ \/ signLast' # signLast
       \/ pc[signLast'.ctx].op = "idle" /\ pc'[signLast'.ctx].op = "login"

\* C11: authenticate(id, s) succeeds and returns s exactly when an entry
\* with that identifier and that secret is persisted, and fails with
\* InvalidCredentials otherwise; it changes nothing that is persisted; and
\* every persisted entry {id, s} authenticates with (id, s).
C11_AuthenticateMatchesExactPair ==
    /\ [](\A i \in 1..Len(StoredUsers) :
            authenticateUser(StoredUsers[i].id, StoredUsers[i].password)
              = [success |-> TRUE, tmdbKey |-> StoredUsers[i].password])
    /\ [][ Authenticated =>
             LET held == \E i \in 1..Len(StoredUsers) :
                            /\ StoredUsers[i].id = signLast'.email
                            /\ StoredUsers[i].password = signLast'.password
             IN  /\ signLast'.status = "signed-in" <=> held
                 /\ usersStored' = usersStored
                 /\ signLast'.status = "signed-in" =>
                        pc'[signLast'.ctx].key = signLast'.password
                 /\ signLast'.status = "invalid-credentials" =>
                        UNCHANGED <<keyStored, flagStored, rememberStored,
                                    wlStored, session>>
         ]_vars

C11_Witness ==
    /\ signLast.op = "signin" /\ signLast.status = "invalid-credentials"
    /\ \E i \in 1..Len(StoredUsers) :
          /\ StoredUsers[i].id = signLast.email
          /\ StoredUsers[i].password # signLast.password
    /\ \E c \in Contexts : session[c].isAuthenticated

\* C12: the persisted collection never holds two entries with the same
\* identifier, whatever registrations the contexts issue.
C12_IdentifiersUnique ==
    \A i, j \in 1..Len(StoredUsers) :
        StoredUsers[i].id = StoredUsers[j].id => i = j

C12_Witness ==
    /\ Len(StoredUsers) = 2
    /\ signLast.op = "signup" /\ signLast.status = "exists" /\ signLast.ctx = 2
    /\ StoredUsers[1].id = signLast.email
    /\ pending[1] = <<>>

C14_LoginPersistsSecretAndFlag ==
    sessLast.op = "login" =>
        /\ getStoredTmdbKey = sessLast.key
        /\ isLoggedIn
        /\ session[sessLast.ctx] = Session(TRUE, sessLast.key)

\* C14, amended: in the state a completed login(secret) leaves, the persisted
\* flag is true and the session of that context is {true, secret}; the
\* persisted secret is secret when no other context has written the secret
\* between the two writes of this login.
C14_LoginPersistsUnlessOverwritten ==
    sessLast.op = "login" =>
        /\ isLoggedIn
        /\ session[sessLast.ctx] = Session(TRUE, sessLast.key)
        /\ sessLast.alone => getStoredTmdbKey = sessLast.key

C14_Witness ==
    /\ sessLast.op = "login" /\ sessLast.alone
    /\ \E d \in Contexts \ {sessLast.ctx} :
          /\ session[d].isAuthenticated
          /\ session[d].tmdbKey # <<>>
          /\ session[d].tmdbKey # sessLast.key

\* C15 as stated: in the state a completed logout() leaves, the persisted
\* secret reads as empty, the persisted flag is not true and the session of
\* that context is {false, empty}.
C15_LogoutClearsSecretAndFlag ==
    sessLast.op = "logout" =>
        /\ getStoredTmdbKey = <<>>
        /\ ~isLoggedIn
        /\ session[sessLast.ctx] = Session(FALSE, <<>>)

\* C15, amended: in the state a completed logout() leaves, the persisted flag
\* is not true and the session of that context is {false, empty}; the
\* persisted secret reads as empty when no other context has written the
\* secret between the two writes of this logout.
C15_LogoutClearsUnlessOverwritten ==
    sessLast.op = "logout" =>
        /\ ~isLoggedIn
        /\ session[sessLast.ctx] = Session(FALSE, <<>>)
        /\ sessLast.alone => getStoredTmdbKey = <<>>

C15_Witness ==
    /\ sessLast.op = "logout" /\ sessLast.alone
    /\ \E d \in Contexts \ {sessLast.ctx} :
          session[d] = Session(TRUE, <<"k">>)

\* C16: in every state where the persisted flag is not true, the guard of
\* every context denies access, whatever the session of that context says.
C16_GuardDeniesWithoutPersistedFlag ==
    \A c \in Contexts : ~isLoggedIn => ~allowed(c)

\* The step handles, in context c, the event of a session key.
SessionKeyEvent(c) ==
    /\ sessLast'.op = "sync" /\ sessLast'.ctx = c
    /\ pending[c] # <<>>
    /\ pending'[c] = Tail(pending[c])
    /\ Head(pending[c]) \in {TMDB_KEY, IS_LOGIN_KEY}

\* C17: when a context handles the event of a session key its session
\* becomes the persisted one of that moment, loggedIn = (flag is 'true') and
\* secret = persisted secret or empty; and once every event is delivered and
\* no handler is under way, the sessions of all contexts are equal.
C17_SyncAdoptsPersistedSession ==
    /\ [][ \A c \in Contexts : SessionKeyEvent(c) =>
              /\ session'[c].isAuthenticated = (flagStored = "true")
              /\ session'[c].tmdbKey = (IF keyStored = Null THEN <<>> ELSE keyStored)
              /\ UNCHANGED <<flagStored, keyStored>> ]_vars
    /\ [](Quiet => \A c, d \in Contexts : session[c] = session[d])

C17_Witness ==
    /\ Quiet
    /\ sessLast.op = "sync" /\ sessLast.event = IS_LOGIN_KEY
    /\ session[sessLast.ctx] = Session(TRUE, <<"j">>)
    /\ \A d \in Contexts : session[d] = session[sessLast.ctx]

\* The persisted flag and the persisted secret do not fit together.
Inconsistent == Observed(isLoggedIn, getStoredTmdbKey) # {}

\* C18: login and logout write the secret and the flag in two steps, never
\* both in one; a context that reads between the two can find the flag
\* without a secret or a secret without the flag (the witness); and no
\* step of the program other than a write of a later login or logout makes
\* such a store fit again: a context that reads it leaves it as it is.
C18_TwoWritesLeaveInconsistentStore ==
    /\ [][ keyStored' = keyStored \/ flagStored' = flagStored ]_vars
    /\ [][ sessLast'.op = "sync" => UNCHANGED <<keyStored, flagStored>> ]_vars
    /\ [][ (Inconsistent /\ ~Inconsistent') =>
              sessLast'.op \in {"login-write", "login", "logout-write", "logout"}
         ]_vars

C18_Witness ==
    /\ seen = {"flag-without-secret", "secret-without-flag"}
    /\ sessLast.op = "sync"
    /\ Observed(session[sessLast.ctx].isAuthenticated,
                session[sessLast.ctx].tmdbKey) # {}
    /\ Inconsistent
    /\ \E d \in Contexts \ {sessLast.ctx} : pc[d].op # "idle"

\* C20: when a cancelled fetch settles, with a response, with the abort
\* error or with another error, the list, the error and the loading flag
\* stay as they were; a settling fetch changes the error only when it was
\* not cancelled and failed, and then to the message of that failure.
C20_CancelledFetchChangesNothing ==
    [][ Len(inflight') < Len(inflight) =>
          /\ hookLast'.op = "settle"
          /\ hookLast'.cancelled => UNCHANGED <<movies, error, loading>>
          /\ error' # error =>
                /\ ~hookLast'.cancelled
                /\ movies' = <<>>
                /\ error' \in {RejectedKeyMessage, ServerErrorMessage,
                               NetworkErrorMessage}
      ]_vars

C20_Witness ==
    /\ hookLast.op = "settle" /\ hookLast.cancelled
    /\ mounted
    /\ error = ServerErrorMessage
    /\ ~loading

\* Every copy in memory is the persisted value.
Reconciled ==
    \A c \in Contexts :
        /\ wishlist[c] = readWishlist(wlStored)
        /\ session[c].isAuthenticated = (flagStored = "true")
        /\ session[c].tmdbKey = (IF keyStored = Null THEN <<>> ELSE keyStored)
        /\ theme[c] = themeStored

\* C19: once the users start no more operations and the events are
\* delivered, every context's wishlist, session and theme are the persisted
\* values, and they stay so: in the end nothing is queued, nothing is under
\* way and every copy is reconciled; whenever nothing is queued and nothing
\* is under way the copies are reconciled already; and from some point on
\* no step writes to the store or queues an event.
C19_EventuallyReconciled ==
    /\ <>[](Quiet /\ Reconciled)
    /\ [](Quiet => Reconciled)
    /\ <>[][UNCHANGED <<wlStored, keyStored, flagStored, themeStored,
                        pending>>]_vars

C19_Witness ==
    /\ Quiet /\ Reconciled
    /\ ops = MaxOps
    /\ wlStored = JSON_stringify(<<WishlistEntry(5, "Untitled")>>)
    /\ themeStored = "light"
    /\ flagStored = "true"
    /\ wlLast.op = "sync"

\* C21: the cache entry of an endpoint is the normalized list of the latest
\* 2xx response to a fetch of that endpoint that was not cancelled, and no
\* entry when there was none; a step changes the entry of an endpoint only
\* by settling such a fetch of that endpoint, and leaves the entries of the
\* other endpoints as they were.
C21_CacheHoldsLatestSuccess ==
    /\ [](movieCache = lastServed)
    /\ [][ \A ep \in Endpoints : movieCache'[ep] # movieCache[ep] =>
              /\ Len(inflight') < Len(inflight)
              /\ hookLast'.op = "settle" /\ ~hookLast'.cancelled
              /\ ep = endpoint
              /\ error' = NoError
              /\ movieCache'[ep] = Cached(movies')
              /\ \A other \in Endpoints \ {ep} :
                    movieCache'[other] = movieCache[other] ]_vars

C21_Witness ==
    /\ hookLast.op = "settle" /\ hookLast.cancelled
    /\ \A ep \in Endpoints : movieCache[ep].has
    /\ movieCache["/movie/popular"].list # movieCache["/movie/top_rated"].list
    /\ error = MissingKeyMessage
    /\ inflight # <<>>

\* The states of a hook instance.
HookLoading == loading
HookSuccess ==
    /\ ~loading /\ error = NoError
    /\ lastServed[endpoint].has /\ movies = lastServed[endpoint].list
HookError == ~loading /\ error # NoError /\ movies = <<>>
Restart == FetchMount \/ FetchRerender \/ FetchUnmount

\* C22: a mounted instance is loading exactly while the fetch of its latest
\* effect run has not settled; when every fetch settles, an instance that
\* is not restarted for ever ends, and stays, out of Loading, with no error
\* and the normalized list of the response, or with an error message and
\* the empty list.
C22_LoadingThenSuccessOrError ==
    /\ [](mounted => (HookLoading <=> LiveFetches # {}))
    /\ [](mounted => (HookLoading \/ HookSuccess \/ HookError))
    /\ ([]<><<Restart>>_vars) \/ <>[](~mounted \/ HookSuccess \/ HookError)

C22_Witness ==
    /\ mounted /\ HookSuccess
    /\ hookLast.op = "settle" /\ ~hookLast.cancelled
    /\ movies # <<>>
    /\ inflight # <<>>

\* filtered picks its items from source: where each item of filtered stands
\* in source.
Picks ==
    { f \in [1..Len(filtered) -> 1..Len(source)] :
        /\ \A i \in 1..Len(filtered) : filtered[i] = source[f[i]]
        /\ \A i, j \in 1..Len(filtered) : i # j => f[i] # f[j] }
AtLeastSeven ==
    \A i \in 1..Len(filtered) :
        filtered[i].vote_average # Missing /\ filtered[i].vote_average >= 70
ByDescendingScore ==
    \A i, j \in 1..Len(filtered) :
        i < j => filtered[i].vote_average >= filtered[j].vote_average
TiesInOriginalOrder ==
    \E f \in Picks :
        \A i, j \in 1..Len(filtered) :
            (i < j /\ filtered[i].vote_average = filtered[j].vote_average)
                => f[i] < f[j]

\* C23 as stated: with a minimum score of 7.0 the pipeline returns only
\* items of the input whose score is at least 7.0, by descending score,
\* items of equal score in their original order, whatever the sort option;
\* it does not modify the input list.
C23_MinScoreSortedByScore ==
    /\ [](pipeFilters.rating = 70 =>
            AtLeastSeven /\ ByDescendingScore /\ TiesInOriginalOrder)
    /\ [][source' = source]_vars

\* C23, amended: with a minimum score of 7.0 the pipeline returns only items
\* of the input whose score is at least 7.0 and does not modify the input
\* list; when the sort option is vote_average.desc they are in descending
\* order of score, items of equal score in their original order.
C23_MinScoreSortedByChosenOption ==
    /\ [](pipeFilters.rating = 70 =>
            /\ AtLeastSeven
            /\ Picks # {}
            /\ pipeFilters.sort = "vote_average.desc" =>
                  ByDescendingScore /\ TiesInOriginalOrder)
    /\ [][source' = source]_vars

C23_Witness ==
    /\ pipeFilters = Filters("", 0, 70, 0, "vote_average.desc")
    /\ Len(source) = 3
    /\ source[1].id = 3 /\ source[2].id = 1 /\ source[3].id = 2
    /\ Len(filtered) = 3
    /\ filtered[1].id = 1 /\ filtered[2].id = 3 /\ filtered[3].id = 2

\* The request a step has issued.
IssuedOne(targetFilters) ==
    /\ Len(requests') = Len(requests) + 1
    /\ requests'[Len(requests')].filters = targetFilters
    /\ ~requests'[Len(requests')].aborted

\* C24: on the search page with a key, after the first load, a change of
\* the filters issues no request and leaves one timer, which carries the
\* filters of that change, so of a burst of changes only the timer of the
\* last one is left; when it fires it issues one request with these
\* filters; a submit clears the timer and issues one request at once.
C24_DebounceCoalesces ==
    /\ []((site = "search" /\ pageKey # <<>>) =>
            /\ Len(timers) <= 1
            /\ \A i \in 1..Len(timers) : timers[i] = Timer(filters))
    /\ [][ (pageKey # <<>> /\ pageLast'.op = "change") =>
              /\ requests' = requests
              /\ timers' = <<Timer(filters')>> ]_vars
    /\ [][ pageLast'.op = "timer" =>
              /\ timers' = <<>>
              /\ filters' = filters
              /\ IssuedOne(filters) ]_vars
    /\ [][ (pageKey # <<>> /\ pageLast'.op = "submit") =>
              /\ timers' = <<>>
              /\ IssuedOne(filters) ]_vars

C24_Witness ==
    /\ site = "search"
    /\ pageLast.op = "timer"
    /\ Len(requests) = 2
    /\ requests[1].aborted /\ requests[1].filters = createDefaultFilters
    /\ requests[2].filters = Filters("", 0, 70, 0, "vote_average.desc")
    /\ siteLoading

\* The fetches of the page that have not been aborted.
LiveRequests == { i \in 1..Len(requests) : ~requests[i].aborted }

C29_LoadingWhileRequestInFlight ==
    /\ []((site = "popular" /\ LiveRequests # {}) => siteLoading)
    /\ [][ (site = "popular" /\ pageLast'.op \in {"paginate", "scroll"}) =>
              LiveRequests = {} ]_vars

\* A persisted value that is not a list of entries with all their fields.
MalformedWishlist(raw) ==
    \/ raw.kind \in {"garbage", "object"}
    \/ raw.kind = "array" /\ \E i \in 1..Len(raw.items) :
          raw.items[i].idType # "number" \/ raw.items[i].title = ""
MalformedUsers(raw) ==
    \/ raw.kind \in {"garbage", "object"}
    \/ raw.kind = "array" /\ \E i \in 1..Len(raw.items) :
          raw.items[i].id = <<>> \/ raw.items[i].password = <<>>
\* The entries of a persisted value that have all their fields.
CompleteEntries(raw) ==
    IF raw.kind # "array" THEN <<>>
    ELSE SelectSeq(raw.items,
                   LAMBDA item : item.idType = "number" /\ item.title # "")
CompleteUsers(raw) ==
    IF raw.kind # "array" THEN <<>>
    ELSE SelectSeq(raw.items,
                   LAMBDA item : item.id # <<>> /\ item.password # <<>>)
Mounts == wlLast'.op = "mount" /\ wlLast' # wlLast
Submits(op) == signLast'.op = op /\ signLast' # signLast

\* C26 as stated: with a malformed value persisted, the wishlist a page
\* mounts with is empty, a sign-up that passes the checks is never refused
\* as existing and leaves the new entry alone in the collection, and a
\* sign-in that passes the checks fails.
C26_MalformedReadsAsEmpty ==
    /\ [][ (Mounts /\ MalformedWishlist(wlStored)) =>
              /\ wishlist'[1] = <<>>
              /\ wlStored' = JSON_stringify(<<>>) ]_vars
    /\ [][ (Submits("signup") /\ MalformedUsers(usersStored)
            /\ signLast'.status \in {"created", "exists"}) =>
              /\ signLast'.status = "created"
              /\ usersStored' = JSON_stringify(
                     <<StoredUser(signLast'.email, signLast'.password)>>) ]_vars
    /\ [][ (Submits("signin") /\ MalformedUsers(usersStored)) =>
              signLast'.status # "signed-in" ]_vars

\* C26, amended: with a malformed value persisted, the wishlist a page
\* mounts with and the credential collection the operations work on are the
\* entries of the persisted list that have all their fields, and empty
\* when the value does not parse or is not a list: the mount writes these
\* entries back, isInWishlist answers by them, a sign-up is refused as
\* existing exactly when one of them has the identifier and otherwise
\* appends to them, and a sign-in succeeds exactly when one of them has the
\* identifier and the secret.
C26_MalformedReadsAsCompleteEntries ==
    /\ [][ (Mounts /\ MalformedWishlist(wlStored)) =>
              /\ wishlist'[1] = CompleteEntries(wlStored)
              /\ wlStored' = JSON_stringify(CompleteEntries(wlStored))
              /\ wlStored.kind # "array" => wishlist'[1] = <<>> ]_vars
    /\ [](wlLast.op = "mount" =>
            \A id \in MovieIds :
                isInWishlist(1, id) <=> some(CompleteEntries(wlStored), id))
    /\ [][ (Submits("signup") /\ MalformedUsers(usersStored)
            /\ signLast'.status \in {"created", "exists"}) =>
              /\ signLast'.status = "exists"
                   <=> hasUser(CompleteUsers(usersStored), signLast'.email)
              /\ signLast'.status = "created" =>
                   usersStored' = JSON_stringify(
                       CompleteUsers(usersStored)
                       \o <<StoredUser(signLast'.email, signLast'.password)>>)
              /\ signLast'.status = "exists" => usersStored' = usersStored ]_vars
    /\ [][ (Submits("signin") /\ MalformedUsers(usersStored)
            /\ signLast'.status \in {"signed-in", "invalid-credentials"}) =>
              signLast'.status = "signed-in" <=>
                \E i \in 1..Len(CompleteUsers(usersStored)) :
                    CompleteUsers(usersStored)[i] =
                        StoredUser(signLast'.email, signLast'.password) ]_vars

C26_Witness ==
    /\ wishlist[1] = <<WishlistEntry(7, "Untitled")>>
    /\ wlLast.op = "mount"
    /\ signLast.op = "signup" /\ signLast.status = "created"
    /\ usersStored = JSON_stringify(<<StoredUser(<<"b", "@", "b">>, <<"k">>),
                                      StoredUser(<<"a", "@", "b">>, <<"k">>)>>)

\* Everything the program keeps in the store.
persisted ==
    <<usersStored, flagStored, keyStored, rememberStored, wlStored, themeStored>>

\* C27: a sign-up that ends with any message but the one of success leaves
\* the credential collection, and every other persisted value, as it was;
\* a sign-in that ends with any message but the one of success leaves the
\* session flag, the session secret, the remembered identifier, and every
\* other persisted value, as they were.
C27_RejectedSubmissionPersistsNothing ==
    /\ [][ (Submits("signup")
            /\ signLast'.status \in {"invalid-email", "missing-key", "mismatch",
                                     "no-consent", "exists"}) =>
              /\ usersStored' = usersStored
              /\ UNCHANGED persisted ]_vars
    /\ [][ (Submits("signin")
            /\ signLast'.status \in {"invalid-email", "missing-key",
                                     "invalid-credentials"}) =>
              /\ UNCHANGED <<flagStored, keyStored, rememberStored>>
              /\ UNCHANGED persisted ]_vars

\* A sign-in was refused while somebody was logged in and remembered.
C27_Witness ==
    /\ signLast.op = "signin" /\ signLast.status = "invalid-credentials"
    /\ rememberStored # Null /\ keyStored # Null /\ flagStored = "true"
    /\ readUsers(usersStored) # <<>>

\* The remembered identifier is set and is the id of no entry of the
\* persisted credential collection.
Dangling ==
    /\ rememberStored # Null
    /\ ~hasUser(readUsers(usersStored), rememberStored)

LogsOut == sessLast' # sessLast /\ sessLast'.op \in {"logout-write", "logout"}

\* C30: a step of logout leaves the persisted credential collection, the
\* remembered identifier, the wishlist and the theme as they were, and of
\* the persisted values changes the secret and the flag alone; so every pair
\* of identifier and secret that authenticated before the logout
\* authenticates after it, and the wishlist read from the store is the same.
C30_LogoutKeepsAccountsAndWishlist ==
    /\ [][ LogsOut =>
              /\ UNCHANGED <<usersStored, rememberStored, wlStored, themeStored>>
              /\ \A form \in HomeLogins :
                   authenticateUser(form.email, form.password).success =>
                       authenticateUser(form.email, form.password).success'
              /\ readWishlist(wlStored)' = readWishlist(wlStored) ]_vars
    /\ [][ (sessLast' # sessLast /\ sessLast'.op = "logout") =>
              keyStored' = keyStored ]_vars
    /\ [][ (sessLast' # sessLast /\ sessLast'.op = "logout-write") =>
              flagStored' = flagStored ]_vars

\* After a logout the remembered user signs in again: the wishlist and the
\* theme of the earlier visit are in the store.
C30_Witness ==
    /\ signLast.op = "signin" /\ signLast.status = "signed-in"
    /\ \E c \in Contexts : pc[c].op = "login"
    /\ flagStored = "false"
    /\ rememberStored = signLast.email
    /\ readWishlist(wlStored) # <<>>
    /\ themeStored = "light"

====
